---- MODULE Spec2Model ----
(***************************************************************************)
(* Model of duckpi_ic: the experiment run controller run_experiment        *)
(* (src/duckpi_ic/ic.py) and the config validator validate_config          *)
(* (src/duckpi_ic/util.py).                                                *)
(*                                                                         *)
(* One run of run_experiment is modelled.  Init draws the run's inputs     *)
(* (the config file contents, the test flag and the process settings);     *)
(* every call of run_experiment into the actuator, the cameras, the remote *)
(* host and the mail relay is one action that either returns or raises.    *)
(* Everything the run does to the outside world is recorded in `log`       *)
(* (actuator, camera and remote calls, in call order) and `emails`.        *)
(* SpecCamera models the callers of the camera switch outside a run, the   *)
(* script scripts/reset_cameras.py among them; SpecValidate models a call  *)
(* of validate_config on a mapping as loaded from the YAML file; SpecLive  *)
(* is a run in which every call returns or raises; SpecGui models the      *)
(* session file of the GUI processes (src/duckpi_ic/gui.py).               *)
(***************************************************************************)
EXTENDS Integers, Sequences, FiniteSets, TLC

\* ---------------------------------------------------------------- bounds
MaxStages == 2
MaxRows == 2
MaxStageDistance == 3
MaxRowDistance == 1
MaxImages == 2
MaxTravel == 3
MaxUnmoved == 1
MaxCameraCalls == 4
MaxRawStages == 2
MaxRawRows == 1
MaxRawRowDistance == 1
MaxGuiProcesses == 2
MaxSeconds == 2

\* ------------------------------------------------------------- variables
VARIABLES
    MAX_DISTANCE,    \* settings.MAX_DISTANCE as validate_config finds it
    config,          \* the mapping loaded from the config file
    test,            \* run_experiment's test argument (dry run)
    pc,              \* position of run_experiment
    validation,      \* outcome of read_and_validate_config ("" before it ran)
    i,               \* enumerate index of the stage loop, 0-based
    row,             \* range index of the row loop, 0-based
    cam,             \* index into Cameras of the camera loop, 1-based
    position,        \* actuator position, in the config's length unit
    local_paths,     \* shots returned by the latest take_stills
    files,           \* contents of the two placeholder files first, last
    unmoved_files,   \* run_experiment's unmoved_files list
    SUCCESS,         \* run_experiment's SUCCESS flag
    email_msg,       \* run_experiment's email_msg
    exc,             \* the exception in flight, NoExc when none
    loopDone,        \* the stage loop was left by exhausting the stages
    log,             \* calls issued to the actuator, cameras and remote host
    emails,          \* notification emails delivered
    result,          \* value returned to the caller, <<>> when none
    local_files,     \* image files present in the local save directory
    pins,            \* direction and output latch of each GPIO channel
    conn,            \* open actuator serial connections, by the step owning them
    current_pos,     \* current_pos of move_actuator_relative
    remote_dirs,     \* directories present under REMOTE_SAVE_DIR on the remote host
    output_file_path, \* take_stills's output_file_path, a sequence of tokens
    validation_error, \* what the exception of validate_config reports
    error_count,     \* error_count of scripts/reset_cameras.py
    axis_log,        \* commands sent to the axis over the latest serial connection
    fabric,          \* open connections to the remote host, by the step owning them
    gui_pc,          \* position of each GUI process in gui.py
    SESSION_FILENAME, \* each GUI process's SESSION_FILENAME, a time in seconds
    existing_session, \* each GUI process's existing_session
    session_dir,     \* names of the files present in SESSION_DIR
    dialogue         \* whether each GUI process created its SessionDialog

vars == <<MAX_DISTANCE, config, test, pc, validation, i, row, cam, position,
          local_paths, files, unmoved_files, SUCCESS, email_msg, exc,
          loopDone, log, emails, result, local_files, pins, conn,
          current_pos, remote_dirs, output_file_path, validation_error,
          error_count, axis_log, fabric, gui_pc, SESSION_FILENAME, existing_session,
          session_dir, dialogue>>

\* the arguments and settings of the run, which no step assigns
inputs == <<MAX_DISTANCE, config, test>>

\* state of the callers of validate_config and take_stills other than
\* run_experiment, which no step of run_experiment assigns
others == <<validation_error, error_count>>

\* state of the GUI processes, which only the steps of gui.py assign
gui == <<gui_pc, SESSION_FILENAME, existing_session, session_dir, dialogue>>

\* ------------------------------------------------------------- constants
\* class Cameras(Enum): A = 0, B = 1, C = 2, D = 3, in definition order
CamerasSwapped == <<"A", "C", "B", "D">>

Cameras == <<"A", "B", "C", "D">>

NoExc == "NoExc"
NoCam == "-"

\* the two paths returned by get_first_last_tmp_paths
first_last == <<"tmp1", "tmp2">>

\* contents of a placeholder file
Absent == [state |-> "absent", stage |-> 0, row |-> 0, cam |-> NoCam, shot |-> 0]
Empty == [state |-> "empty", stage |-> 0, row |-> 0, cam |-> NoCam, shot |-> 0]
Deleted == [state |-> "deleted", stage |-> 0, row |-> 0, cam |-> NoCam, shot |-> 0]

\* the image file shot n of take_stills(camera c, base cam_<c>_<s>_<r>)
Image(s, r, c, n) == [state |-> "image", stage |-> s, row |-> r, cam |-> c, shot |-> n]

\* one call into the outside world: op with its argument, the stage, row
\* and camera it was issued for (0 and NoCam where it has none), and whether
\* it returned (TRUE) or raised (FALSE)
Call(op, arg, s, r, c, ok) ==
    [op |-> op, arg |-> arg, stage |-> s, row |-> r, cam |-> c, ok |-> ok]

\* the directories ensure_remote_dirs_exist creates, in creation order:
\* the experiment root, then camera<X> for each member of Cameras
RemoteDirSeq == <<"root", "cameraA", "cameraB", "cameraC", "cameraD">>
RemoteDirs == {RemoteDirSeq[k] : k \in 1..Len(RemoteDirSeq)}

\* the GUI processes
GuiProcs == 1..MaxGuiProcesses

\* no GUI process has been started and SESSION_DIR holds no file
NoGui ==
    /\ gui_pc = [p \in GuiProcs |-> "not_started"]
    /\ SESSION_FILENAME = [p \in GuiProcs |-> 0]
    /\ existing_session = [p \in GuiProcs |-> {}]
    /\ session_dir = {}
    /\ dialogue = [p \in GuiProcs |-> FALSE]

\* ------------------------------------------------------------- file names
\* str(n) of a non-negative int, one token per digit, as an f-string or
\* "{:d}".format(n) renders it
RECURSIVE str(_)
str(n) ==
    IF n < 10
    THEN <<(<<"0", "1", "2", "3", "4", "5", "6", "7", "8", "9">>)[n + 1]>>
    ELSE str(n \div 10) \o str(n % 10)

\* make_filename_base without the row
make_filename_base_no_row(camera, stage, row_number) ==
    <<"cam_", camera, "_">> \o str(stage)

\* make_filename_base(camera, stage, row): f"cam_{camera}_{stage}_{row}"
make_filename_base(camera, stage, row_number) ==
    <<"cam_", camera, "_">> \o str(stage) \o <<"_">> \o str(row_number)

\* time.strftime("%Y%m%d-%H%M%S"): the same second for every batch
strftime == "YYYYMMDD-HHMMSS"

\* make_filename_ts(filename_base): f"{filename_base}_{ts}" + "_{:d}.jpg"
make_filename_ts(filename_base) ==
    filename_base \o <<"_", strftime, "_", "{:d}", ".jpg">>

\* name.format(n) for a name with one "{:d}" field
format(name, n) ==
    LET k == CHOOSE j \in 1..Len(name) : name[j] = "{:d}"
    IN  SubSeq(name, 1, k - 1) \o str(n) \o SubSeq(name, k + 1, Len(name))

\* os.path.join(output_directory, f"camera{camera.name}",
\*              make_filename_ts(base_filename)) of take_stills
join_output_file_path(camera, base_filename) ==
    <<"local_save_dir", "/", "camera", camera, "/">>
        \o make_filename_ts(base_filename)

\* ------------------------------------------------------------------ GPIO
\* the channels setup_gpio_pins configures; 7, 11 and 12 are the gate lines
Channels == {7, 11, 12, 15, 16, 21, 22}

\* every channel an input, the output latches low: the state at boot
Released == [ch \in Channels |-> [dir |-> "IN", level |-> FALSE]]

\* gp.cleanup(): every channel back to input; the latch keeps its value
gp_cleanup(p) == [ch \in Channels |-> [p[ch] EXCEPT !.dir = "IN"]]

\* setup_gpio_pins(): gp.cleanup(), gp.setup(ch, gp.OUT) for the seven
\* channels, gp.output(ch, True) for all of them but 7
setup_gpio_pins(p) ==
    [ch \in Channels |->
        [dir |-> "OUT", level |-> IF ch = 7 THEN p[ch].level ELSE TRUE]]

\* Cameras._member_names_
MemberNames == {"A", "B", "C", "D"}

\* the levels start_camera writes to channels 7, 11, 12 for a member name
gate_levels(camera_id) ==
    CASE camera_id = "A" -> <<FALSE, FALSE, TRUE>>
      [] camera_id = "B" -> <<TRUE, FALSE, TRUE>>
      [] camera_id = "C" -> <<FALSE, TRUE, FALSE>>
      [] camera_id = "D" -> <<TRUE, TRUE, FALSE>>

\* start_camera with the levels of C and D exchanged
start_camera_swapped(camera_id, p) ==
    IF camera_id \notin MemberNames
    THEN [raised |-> "ValueError", pins |-> p]
    ELSE LET id == IF camera_id = "C" THEN "D"
                   ELSE IF camera_id = "D" THEN "C" ELSE camera_id
             g == gate_levels(id)
         IN  [raised |-> "",
              pins |-> [p EXCEPT ![7].level = g[1], ![11].level = g[2],
                                 ![12].level = g[3]]]

\* start_camera(camera_id): the exception it raises ("" when it returns)
\* and the channels it leaves
start_camera(camera_id, p) ==
    IF camera_id \notin MemberNames
    THEN [raised |-> "ValueError", pins |-> p]
    ELSE LET g == gate_levels(camera_id)
         IN  [raised |-> "",
              pins |-> [p EXCEPT ![7].level = g[1], ![11].level = g[2],
                                 ![12].level = g[3]]]

\* -------------------------------------------------------- validate_config
\* settings.MAX_DISTANCE: the attribute is not defined by _Settings
\* ("missing"); a harness that sets it gives the empty string or digits
SettingValues ==
    {[kind |-> "missing", n |-> 0], [kind |-> "empty", n |-> 0]}
        \cup {[kind |-> "digits", n |-> MaxTravel]}

\* max_dist = int(max_dist) if max_dist else None
None == [some |-> FALSE, v |-> 0]

\* max_dist ignoring the setting
max_dist_unset(setting) == None

max_dist(setting) ==
    IF setting.kind = "digits" THEN [some |-> TRUE, v |-> setting.n] ELSE None

\* travel_check without the comparison with prev_stage_length
RECURSIVE travel_check_no_overlap(_, _, _, _)
travel_check_no_overlap(stages, k, prev_stage_length, md) ==
    IF k > Len(stages) THEN "ok"
    ELSE LET stage_distance == stages[k].stage_distance
             row_distance == stages[k].row_distance * stages[k].rows
             stage_span == row_distance + stage_distance
         IN  IF md.some /\ stage_span > md.v THEN "SchemaError"
             ELSE travel_check_no_overlap(stages, k + 1, stage_span, md)

\* the for loop of validate_config from stage k on, prev_stage_length = prev
RECURSIVE travel_check(_, _, _, _)
travel_check(stages, k, prev_stage_length, md) ==
    IF k > Len(stages) THEN "ok"
    ELSE LET stage_distance == stages[k].stage_distance
             row_distance == stages[k].row_distance * stages[k].rows
             stage_span == row_distance + stage_distance
         IN  IF stage_distance < prev_stage_length THEN "SchemaError"
             ELSE IF md.some /\ stage_span > md.v THEN "SchemaError"
             ELSE travel_check(stages, k + 1, stage_span, md)

\* schema.validate(config), for the fields the model carries
schema_validate(cfg) ==
    IF /\ cfg.number_of_images > 0
       /\ \A k \in 1..Len(cfg.stages) :
            cfg.stages[k].rows > 0 /\ cfg.stages[k].row_distance > 0
    THEN "ok" ELSE "SchemaError"

validate_config(cfg, setting) ==
    IF setting.kind = "missing" THEN "AttributeError"
    ELSE LET t == travel_check(cfg.stages, 1, 0, max_dist(setting))
         IN  IF t # "ok" THEN t ELSE schema_validate(cfg)

\* ------------------------------------------------------------------ Init
StageValues ==
    [stage_distance : -1..MaxStageDistance,
     rows : 0..MaxRows,
     row_distance : 0..MaxRowDistance]

StageSeqs == UNION {[1..n -> StageValues] : n \in 0..MaxStages}

Init ==
    /\ MAX_DISTANCE \in SettingValues
    /\ config \in [number_of_images : 0..MaxImages, stages : StageSeqs]
    /\ test \in BOOLEAN
    /\ pc = "validate"
    /\ validation = ""
    /\ i = 0
    /\ row = 0
    /\ cam = 1
    /\ position = 0
    /\ local_paths = <<>>
    /\ files = [p \in {"tmp1", "tmp2"} |-> Absent]
    /\ unmoved_files = <<>>
    /\ SUCCESS = TRUE
    /\ email_msg = ""
    /\ exc = NoExc
    /\ loopDone = FALSE
    /\ log = <<>>
    /\ emails = <<>>
    /\ result = <<>>
    /\ local_files = {}
    /\ pins = Released
    /\ conn = {}
    /\ current_pos = 0
    /\ remote_dirs \in (IF test THEN {{}} ELSE {{}, RemoteDirs})
    /\ output_file_path = <<>>
    /\ validation_error = ""
    /\ error_count = 0
    /\ axis_log = <<>>
    /\ fabric = {}
    /\ NoGui

\* --------------------------------------------------------- run_experiment
\* an exception raised inside the try block: control goes to the handler
Raise(e) ==
    /\ pc' = "except"
    /\ exc' = e

\* leaving the finally block by `return first_last` whatever is in flight
Exit_returns(e) ==
    /\ pc' = "returned"
    /\ result' = first_last

\* leaving the finally block: the exception in flight, if any, propagates;
\* otherwise `return first_last`
Exit(e) ==
    /\ pc' = IF e = NoExc THEN "returned" ELSE "raised"
    /\ result' = IF e = NoExc THEN first_last ELSE <<>>

\* with FabricConnection(remote_host_name) as c: entering the block makes
\* the connection the step's own
FabricConnection_enter(open) == open \cup {pc}

\* a `with FabricConnection` block that leaves its connection open
FabricConnection_exit_leaky(open) == open

\* the end of a `with FabricConnection` block, by return or by raise:
\* Connection.__exit__ closes the connection
FabricConnection_exit(open) == open \ {pc}

\* experiment_config = read_and_validate_config(config_path)
read_and_validate_config_lax ==
    /\ pc = "validate"
    /\ validation' = validate_config(config, MAX_DISTANCE)
    /\ pc' = "mkstemp"
    /\ UNCHANGED <<inputs, gui, fabric, axis_log, others, remote_dirs, output_file_path, i, row, cam, position,
                   local_paths, files, unmoved_files, SUCCESS, email_msg,
                   exc, loopDone, log, emails, result, local_files, pins,
                   conn, current_pos>>

read_and_validate_config ==
    /\ pc = "validate"
    /\ LET v == validate_config(config, MAX_DISTANCE)
       IN  /\ validation' = v
           /\ IF v = "ok"
              THEN pc' = "mkstemp" /\ exc' = exc
              ELSE pc' = "raised" /\ exc' = v
    /\ UNCHANGED <<inputs, gui, fabric, axis_log, others, remote_dirs, output_file_path, i, row, cam, position,
                   local_paths, files, unmoved_files, SUCCESS, email_msg,
                   loopDone, log, emails, result, local_files, pins, conn,
                   current_pos>>

\* first_last = get_first_last_tmp_paths(); then `if not test:`
get_first_last_tmp_paths ==
    /\ pc = "mkstemp"
    /\ files' = [p \in {"tmp1", "tmp2"} |-> Empty]
    /\ pc' = IF test THEN "home" ELSE "ensure_dirs"
    /\ UNCHANGED <<inputs, gui, fabric, axis_log, others, remote_dirs, output_file_path, validation, i, row, cam,
                   position, local_paths, unmoved_files, SUCCESS, email_msg,
                   exc, loopDone, log, emails, result, local_files, pins,
                   conn, current_pos>>

\* ensure_remote_dirs_exist going on to the try block when it raised
ensure_remote_dirs_exist_nonfatal ==
    /\ pc = "ensure_dirs"
    /\ fabric' = FabricConnection_exit(FabricConnection_enter(fabric))
    /\ \E ok \in BOOLEAN :
        /\ log' = Append(log, Call("mkdirs", Cardinality(remote_dirs), 0, 0, NoCam, ok))
        /\ IF ok
           THEN remote_dirs' = remote_dirs \cup RemoteDirs
           ELSE \E n \in 0..(Len(RemoteDirSeq) - 1) :
                    remote_dirs' = remote_dirs \cup
                                   {RemoteDirSeq[k] : k \in 1..n}
        /\ pc' = "home"
        /\ exc' = exc
    /\ UNCHANGED <<inputs, gui, axis_log, others, output_file_path, validation, i, row, cam,
                   position, local_paths, files, unmoved_files, SUCCESS,
                   email_msg, loopDone, emails, result, local_files, pins,
                   conn, current_pos>>

\* ensure_remote_dirs_exist(remote_host_name, experiment_name), before `try`:
\* one `mkdir -p` per directory over a FabricConnection.  `mkdir -p` does not
\* fail on a directory that exists; the connection or a command can fail,
\* after any number of the directories were made, and the exception leaves
\* run_experiment.  The call is logged with the number of directories that
\* existed before it.
ensure_remote_dirs_exist ==
    /\ pc = "ensure_dirs"
    /\ fabric' = FabricConnection_exit(FabricConnection_enter(fabric))
    /\ \E ok \in BOOLEAN :
        /\ log' = Append(log, Call("mkdirs", Cardinality(remote_dirs), 0, 0, NoCam, ok))
        /\ IF ok
           THEN /\ remote_dirs' = remote_dirs \cup RemoteDirs
                /\ pc' = "home"
                /\ exc' = exc
           ELSE /\ \E n \in 0..(Len(RemoteDirSeq) - 1) :
                    remote_dirs' = remote_dirs \cup
                                   {RemoteDirSeq[k] : k \in 1..n}
                /\ pc' = "raised"
                /\ exc' = "RemoteDirError"
    /\ UNCHANGED <<inputs, gui, axis_log, others, output_file_path, validation, i, row, cam,
                   position, local_paths, files, unmoved_files, SUCCESS,
                   email_msg, loopDone, emails, result, local_files, pins,
                   conn, current_pos>>

\* the steps of run_experiment that are a call of home_actuator,
\* get_actuator_position or move_actuator
ActuatorSteps ==
    {"home", "stage_move", "stage_move_actuator", "row_move", "finally"}

\* with Connection.open_serial_port(device_port) as connection:
\* the first statement of home_actuator, get_actuator_position, move_actuator
open_serial_port ==
    /\ pc \in ActuatorSteps
    /\ pc \notin conn
    /\ conn' = conn \cup {pc}
    /\ axis_log' = <<>>
    /\ UNCHANGED <<inputs, gui, fabric, others, remote_dirs, output_file_path, pc, validation, i, row, cam, position,
                   local_paths, files, unmoved_files, SUCCESS, email_msg,
                   exc, loopDone, log, emails, result, local_files, pins,
                   current_pos>>

\* the end of the `with` block of an actuator call, by return or by raise
close_serial_port == conn' = conn \ {pc}

\* the steps that are a call of home_actuator or move_actuator, the two
\* callers of set_axis_defaults
MotionSteps == {"home", "stage_move_actuator", "row_move", "finally"}

\* the first command of the axis each actuator step ends with: axis.home(),
\* axis.move_relative(distance, unit), axis.get_position(unit=unit)
AxisCommand ==
    [step \in ActuatorSteps |->
        CASE step \in {"home", "finally"} -> "home"
          [] step \in {"stage_move_actuator", "row_move"} -> "move_relative"
          [] OTHER -> "get_position"]

\* set_axis_defaults leaving acceleration and deceleration as they are
set_axis_defaults_maxspeed_only ==
    /\ pc \in MotionSteps
    /\ pc \in conn
    /\ axis_log = <<>>
    /\ axis_log' = <<"maxspeed">>
    /\ UNCHANGED <<inputs, gui, fabric, others, remote_dirs, output_file_path, pc,
                   validation, i, row, cam, position, local_paths, files,
                   unmoved_files, SUCCESS, email_msg, exc, loopDone, log,
                   emails, result, local_files, pins, conn, current_pos>>

\* set_axis_defaults(axis), the first use home_actuator and move_actuator
\* make of the axis of the connection they opened: three axis.settings.set
\* calls, for maxspeed, motion.accelonly and motion.decelonly
set_axis_defaults ==
    /\ pc \in MotionSteps
    /\ pc \in conn
    /\ axis_log = <<>>
    /\ axis_log' = <<"maxspeed", "motion.accelonly", "motion.decelonly">>
    /\ UNCHANGED <<inputs, gui, fabric, others, remote_dirs, output_file_path, pc,
                   validation, i, row, cam, position, local_paths, files,
                   unmoved_files, SUCCESS, email_msg, exc, loopDone, log,
                   emails, result, local_files, pins, conn, current_pos>>

\* home_actuator or move_actuator has got past its set_axis_defaults(axis):
\* the connection is open and has carried commands
defaults_set == pc \in conn /\ axis_log # <<>>

\* what the connection has carried when an actuator call raises: nothing
\* new when the port did not open; any of the settings commands when the
\* call raised before set_axis_defaults returned; otherwise the command
\* that raised, sent or not
raised_axis_log(command) ==
    IF pc \notin conn THEN {axis_log}
    ELSE IF axis_log = <<>> /\ pc \in MotionSteps
         THEN {<<>>, <<"maxspeed">>, <<"maxspeed", "motion.accelonly">>,
               <<"maxspeed", "motion.accelonly", "motion.decelonly">>}
         ELSE {axis_log, Append(axis_log, command)}

\* what the connection has carried when an actuator call ends: all of its
\* commands when it returns
axis_log_after(ok, commands) ==
    IF ok THEN {axis_log \o commands} ELSE raised_axis_log(commands[1])

\* try: home_actuator()
home_actuator ==
    /\ pc = "home"
    /\ \E ok \in BOOLEAN :
        /\ ok => defaults_set
        /\ axis_log' \in axis_log_after(ok, <<"home">>)
        /\ log' = Append(log, Call("home", 0, 0, 0, NoCam, ok))
        /\ IF ok
           THEN pc' = "for_stage" /\ position' = 0 /\ exc' = exc
           ELSE Raise("HomeError") /\ position' = position
    /\ close_serial_port
    /\ UNCHANGED <<inputs, gui, fabric, others, remote_dirs, output_file_path, validation, i, row, cam,
                   local_paths, files, unmoved_files, SUCCESS, email_msg,
                   loopDone, emails, result, local_files, pins, current_pos>>

\* for i, stage in enumerate(experiment_config["stages"]):
for_stage ==
    /\ pc = "for_stage"
    /\ IF i < Len(config.stages)
       THEN pc' = "stage_move" /\ loopDone' = loopDone
       ELSE pc' = "finally" /\ loopDone' = TRUE
    /\ UNCHANGED <<inputs, gui, fabric, axis_log, others, remote_dirs, output_file_path, validation, i, row, cam,
                   position, local_paths, files, unmoved_files, SUCCESS,
                   email_msg, exc, log, emails, result, local_files, pins,
                   conn, current_pos>>

\* move_actuator_relative, first half:
\* current_pos = round(get_actuator_position(unit))
get_actuator_position ==
    /\ pc = "stage_move"
    /\ \E ok \in BOOLEAN :
        /\ ok => pc \in conn
        /\ axis_log' \in axis_log_after(ok, <<"get_position">>)
        /\ log' = Append(log, Call("get_position", 0, i + 1, 0, NoCam, ok))
        /\ IF ok
           THEN /\ current_pos' = position
                /\ pc' = "stage_move_actuator"
                /\ exc' = exc
           ELSE /\ Raise("PositionError")
                /\ current_pos' = current_pos
    /\ close_serial_port
    /\ UNCHANGED <<inputs, gui, fabric, others, remote_dirs, output_file_path, validation, i, row, cam, position,
                   local_paths, files, unmoved_files, SUCCESS, email_msg,
                   loopDone, emails, result, local_files, pins>>

\* move_actuator_relative leaving its connection open when the move raises
move_actuator_relative_leaky ==
    /\ pc = "stage_move_actuator"
    /\ LET distance == config.stages[i + 1].stage_distance
           _distance == distance - current_pos
       IN  \E ok \in BOOLEAN :
            /\ ok => defaults_set
            /\ axis_log' \in axis_log_after(ok, <<"move_relative", "get_position">>)
            /\ log' = Append(log, Call("move", _distance, i + 1, 0, NoCam, ok))
            /\ IF ok
               THEN /\ position' = position + _distance
                    /\ row' = 0
                    /\ pc' = "for_row"
                    /\ exc' = exc
                    /\ close_serial_port
               ELSE /\ Raise("MoveError")
                    /\ UNCHANGED <<position, row, conn>>
    /\ UNCHANGED <<inputs, gui, fabric, others, remote_dirs, output_file_path, validation, i, cam,
                   local_paths, files, unmoved_files, SUCCESS, email_msg,
                   loopDone, emails, result, local_files, pins, current_pos>>

\* move_actuator_relative commanding the distance from home as it is
move_actuator_relative_absolute ==
    /\ pc = "stage_move_actuator"
    /\ LET distance == config.stages[i + 1].stage_distance
           _distance == distance
       IN  \E ok \in BOOLEAN :
            /\ ok => defaults_set
            /\ axis_log' \in axis_log_after(ok, <<"move_relative", "get_position">>)
            /\ log' = Append(log, Call("move", _distance, i + 1, 0, NoCam, ok))
            /\ IF ok
               THEN /\ position' = position + _distance
                    /\ row' = 0
                    /\ pc' = "for_row"
                    /\ exc' = exc
               ELSE /\ Raise("MoveError")
                    /\ UNCHANGED <<position, row>>
    /\ close_serial_port
    /\ UNCHANGED <<inputs, gui, fabric, others, remote_dirs, output_file_path, validation, i, cam,
                   local_paths, files, unmoved_files, SUCCESS, email_msg,
                   loopDone, emails, result, local_files, pins, current_pos>>

\* move_actuator_relative, second half:
\* _distance = round(distance - current_pos); move_actuator(_distance, unit)
move_actuator_relative ==
    /\ pc = "stage_move_actuator"
    /\ LET distance == config.stages[i + 1].stage_distance
           _distance == distance - current_pos
       IN  \E ok \in BOOLEAN :
            /\ ok => defaults_set
            /\ axis_log' \in axis_log_after(ok, <<"move_relative", "get_position">>)
            /\ log' = Append(log, Call("move", _distance, i + 1, 0, NoCam, ok))
            /\ IF ok
               THEN /\ position' = position + _distance
                    /\ row' = 0
                    /\ pc' = "for_row"
                    /\ exc' = exc
               ELSE /\ Raise("MoveError")
                    /\ UNCHANGED <<position, row>>
    /\ close_serial_port
    /\ UNCHANGED <<inputs, gui, fabric, others, remote_dirs, output_file_path, validation, i, cam,
                   local_paths, files, unmoved_files, SUCCESS, email_msg,
                   loopDone, emails, result, local_files, pins, current_pos>>

\* for row in range(stage["rows"]): and its `if row > 0:`
for_row ==
    /\ pc = "for_row"
    /\ IF row < config.stages[i + 1].rows
       THEN /\ pc' = IF row > 0 THEN "row_move" ELSE "take_stills"
            /\ cam' = 1
            /\ i' = i
       ELSE /\ pc' = "for_stage"
            /\ i' = i + 1
            /\ cam' = cam
    /\ UNCHANGED <<inputs, gui, fabric, axis_log, others, remote_dirs, output_file_path, validation, row, position,
                   local_paths, files, unmoved_files, SUCCESS, email_msg,
                   exc, loopDone, log, emails, result, local_files, pins,
                   conn, current_pos>>

\* move_actuator(stage["row_distance"]["length"], units)
move_actuator ==
    /\ pc = "row_move"
    /\ LET distance == config.stages[i + 1].row_distance
       IN  \E ok \in BOOLEAN :
            /\ ok => defaults_set
            /\ axis_log' \in axis_log_after(ok, <<"move_relative", "get_position">>)
            /\ log' = Append(log, Call("move", distance, i + 1, row + 1, NoCam, ok))
            /\ IF ok
               THEN /\ position' = position + distance
                    /\ pc' = "take_stills"
                    /\ exc' = exc
               ELSE /\ Raise("MoveError")
                    /\ position' = position
    /\ close_serial_port
    /\ UNCHANGED <<inputs, gui, fabric, others, remote_dirs, output_file_path, validation, i, row, cam,
                   local_paths, files, unmoved_files, SUCCESS, email_msg,
                   loopDone, emails, result, local_files, pins, current_pos>>

\* base_filename = make_filename_base(camera.name, i + 1, row + 1) and the
\* start of take_stills: output_file_path, then `with DuckCam(camera) as
\* cam:` up to the end of DuckCam.__init__: setup_gpio_pins(), start_camera(cam.name), then
\* Picamera2.__init__, which opens the camera or raises
DuckCam ==
    /\ pc = "take_stills"
    /\ LET sc == start_camera(Cameras[cam], setup_gpio_pins(pins))
       IN  /\ pins' = sc.pins
           /\ IF sc.raised # ""
              THEN /\ log' = Append(log, Call("capture", config.number_of_images,
                                             i + 1, row + 1, Cameras[cam], FALSE))
                   /\ Raise(sc.raised)
              ELSE \E ok \in BOOLEAN :
                    IF ok
                    THEN pc' = "capture_files" /\ UNCHANGED <<log, exc>>
                    ELSE /\ log' = Append(log,
                                Call("capture", config.number_of_images,
                                     i + 1, row + 1, Cameras[cam], FALSE))
                         /\ Raise("CaptureError")
    /\ output_file_path' =
            join_output_file_path(Cameras[cam],
                make_filename_base(Cameras[cam], i + 1, row + 1))
    /\ UNCHANGED <<inputs, gui, fabric, axis_log, others, remote_dirs, validation, i, row, cam,
                   position, local_paths, files, unmoved_files, SUCCESS,
                   email_msg, loopDone, emails, result, local_files, conn,
                   current_pos>>

\* the files start_and_capture_files has written once k stills are taken
shots(k) == {Image(i + 1, row + 1, Cameras[cam], n) : n \in 0..(k - 1)}

\* take_stills, the body and the exit of the `with` block:
\* cam.start_and_capture_files(name, num_files=img_count) takes the stills
\* in order and raises at the first that fails; leaving the block closes the
\* camera, whose stop() is DuckCam.stop: gp.cleanup().
\* return [output_file_path.format(i) for i in range(img_count)]
take_stills ==
    /\ pc = "capture_files"
    /\ LET img_count == config.number_of_images
       IN  \E k \in 0..img_count :
            /\ local_files' = local_files \cup shots(k)
            /\ log' = Append(log, Call("capture", img_count, i + 1, row + 1,
                                       Cameras[cam], k = img_count))
            /\ IF k = img_count
               THEN /\ local_paths' =
                          [n \in 1..img_count |->
                              Image(i + 1, row + 1, Cameras[cam], n - 1)]
                    /\ pc' = "update_first_last"
                    /\ exc' = exc
               ELSE /\ Raise("CaptureError")
                    /\ local_paths' = local_paths
    /\ pins' = gp_cleanup(pins)
    /\ UNCHANGED <<inputs, gui, fabric, axis_log, others, remote_dirs, output_file_path, validation, i, row, cam,
                   position, files, unmoved_files, SUCCESS, email_msg,
                   loopDone, emails, result, conn, current_pos>>

\* the camera loop starting over at camera A after camera D
NextCamera_wraps ==
    /\ cam' = IF cam < Len(Cameras) THEN cam + 1 ELSE 1
    /\ row' = row
    /\ pc' = "take_stills"

\* the end of the camera loop body: next camera, or next row
NextCamera ==
    IF cam < Len(Cameras)
    THEN /\ cam' = cam + 1
         /\ row' = row
         /\ pc' = "take_stills"
    ELSE /\ cam' = cam
         /\ row' = row + 1
         /\ pc' = "for_row"

\* update_first_last followed by the offload whatever the test flag
update_first_last_always_offload ==
    /\ pc = "update_first_last"
    /\ IF files["tmp1"].state = "empty"
       THEN files' = [files EXCEPT !["tmp1"] = local_paths[1]]
       ELSE files' = [files EXCEPT !["tmp2"] = local_paths[Len(local_paths)]]
    /\ pc' = "offload"
    /\ UNCHANGED <<inputs, gui, fabric, axis_log, others, remote_dirs, output_file_path, validation, i, row, cam,
                   position, local_paths, unmoved_files, SUCCESS, email_msg,
                   exc, loopDone, log, emails, result, local_files, pins,
                   conn, current_pos>>

\* update_first_last copying the latest path into last on its first call too
update_first_last_both ==
    /\ pc = "update_first_last"
    /\ IF files["tmp1"].state = "empty"
       THEN files' = [files EXCEPT !["tmp1"] = local_paths[1],
                                   !["tmp2"] = local_paths[Len(local_paths)]]
       ELSE files' = [files EXCEPT !["tmp2"] = local_paths[Len(local_paths)]]
    /\ IF test
       THEN NextCamera
       ELSE pc' = "offload" /\ UNCHANGED <<cam, row>>
    /\ UNCHANGED <<inputs, gui, fabric, axis_log, others, remote_dirs, output_file_path, validation, i, position,
                   local_paths, unmoved_files, SUCCESS, email_msg, exc,
                   loopDone, log, emails, result, local_files, pins, conn,
                   current_pos>>

\* update_first_last copying the first path in both branches
update_first_last_first_path ==
    /\ pc = "update_first_last"
    /\ IF files["tmp1"].state = "empty"
       THEN files' = [files EXCEPT !["tmp1"] = local_paths[1]]
       ELSE files' = [files EXCEPT !["tmp2"] = local_paths[1]]
    /\ IF test
       THEN NextCamera
       ELSE pc' = "offload" /\ UNCHANGED <<cam, row>>
    /\ UNCHANGED <<inputs, gui, fabric, axis_log, others, remote_dirs, output_file_path, validation, i, position,
                   local_paths, unmoved_files, SUCCESS, email_msg, exc,
                   loopDone, log, emails, result, local_files, pins, conn,
                   current_pos>>

\* update_first_last followed by no offload: the files stay local
update_first_last_skip_offload ==
    /\ pc = "update_first_last"
    /\ IF files["tmp1"].state = "empty"
       THEN files' = [files EXCEPT !["tmp1"] = local_paths[1]]
       ELSE files' = [files EXCEPT !["tmp2"] = local_paths[Len(local_paths)]]
    /\ NextCamera
    /\ UNCHANGED <<inputs, gui, fabric, axis_log, others, remote_dirs, output_file_path, validation, i, position,
                   local_paths, unmoved_files, SUCCESS, email_msg, exc,
                   loopDone, log, emails, result, local_files, pins, conn,
                   current_pos>>

\* update_first_last(first_last, local_paths); then `if not test:`
update_first_last ==
    /\ pc = "update_first_last"
    /\ IF files["tmp1"].state = "empty"
       THEN files' = [files EXCEPT !["tmp1"] = local_paths[1]]
       ELSE files' = [files EXCEPT !["tmp2"] = local_paths[Len(local_paths)]]
    /\ IF test
       THEN NextCamera
       ELSE pc' = "offload" /\ UNCHANGED <<cam, row>>
    /\ UNCHANGED <<inputs, gui, fabric, axis_log, others, remote_dirs, output_file_path, validation, i, position,
                   local_paths, unmoved_files, SUCCESS, email_msg, exc,
                   loopDone, log, emails, result, local_files, pins, conn,
                   current_pos>>

\* put_calls giving up at the first transfer that raises
RECURSIVE put_calls_until_failure(_, _, _)
put_calls_until_failure(paths, k, failing) ==
    IF k > Len(paths) THEN <<>>
    ELSE <<Call("put", paths[k].shot, paths[k].stage, paths[k].row, paths[k].cam,
               k \notin failing)>>
            \o (IF k \in failing THEN <<>>
                ELSE put_calls_until_failure(paths, k + 1, failing))

\* the put calls of move_files_to_remote over local_paths[k..], the
\* transfers of the shots in `failing` raising
RECURSIVE put_calls(_, _, _)
put_calls(paths, k, failing) ==
    IF k > Len(paths) THEN <<>>
    ELSE <<Call("put", paths[k].shot, paths[k].stage, paths[k].row, paths[k].cam,
               k \notin failing)>>
            \o put_calls(paths, k + 1, failing)

\* the failures list returned by move_files_to_remote
RECURSIVE failures(_, _, _)
failures(paths, k, failing) ==
    IF k > Len(paths) THEN <<>>
    ELSE (IF k \in failing THEN <<paths[k]>> ELSE <<>>)
            \o failures(paths, k + 1, failing)

\* the offload assigning the batch's failures instead of extending the list
move_files_to_remote_overwrite ==
    /\ pc = "offload"
    /\ fabric' = FabricConnection_exit(FabricConnection_enter(fabric))
    /\ \/ /\ log' = Append(log, Call("connect", 0, i + 1, row + 1, Cameras[cam], FALSE))
          /\ Raise("ConnectionError")
          /\ UNCHANGED <<unmoved_files, cam, row>>
       \/ \E failing \in SUBSET (1..Len(local_paths)) :
            /\ Len(unmoved_files) + Cardinality(failing) <= MaxUnmoved
            /\ log' = log \o <<Call("connect", 0, i + 1, row + 1, Cameras[cam], TRUE)>>
                          \o put_calls(local_paths, 1, failing)
            /\ unmoved_files' = failures(local_paths, 1, failing)
            /\ NextCamera
            /\ exc' = exc
    /\ UNCHANGED <<inputs, gui, axis_log, others, remote_dirs, output_file_path, validation, i, position,
                   local_paths, files, SUCCESS, email_msg, loopDone, emails,
                   result, local_files, pins, conn, current_pos>>

\* with FabricConnection(remote_host_name) as c:
\*     _unmoved = move_files_to_remote(c, local_paths, experiment_name)
\*     unmoved_files.extend(_unmoved)
\* move_files_to_remote removes no local file: its os.remove is commented out
move_files_to_remote ==
    /\ pc = "offload"
    /\ fabric' = FabricConnection_exit(FabricConnection_enter(fabric))
    /\ \/ /\ log' = Append(log, Call("connect", 0, i + 1, row + 1, Cameras[cam], FALSE))
          /\ Raise("ConnectionError")
          /\ UNCHANGED <<unmoved_files, cam, row>>
       \/ \E failing \in SUBSET (1..Len(local_paths)) :
            /\ Len(unmoved_files) + Cardinality(failing) <= MaxUnmoved
            /\ log' = log \o <<Call("connect", 0, i + 1, row + 1, Cameras[cam], TRUE)>>
                          \o put_calls(local_paths, 1, failing)
            /\ unmoved_files' = unmoved_files \o failures(local_paths, 1, failing)
            /\ NextCamera
            /\ exc' = exc
    /\ UNCHANGED <<inputs, gui, axis_log, others, remote_dirs, output_file_path, validation, i, position,
                   local_paths, files, SUCCESS, email_msg, loopDone, emails,
                   result, local_files, pins, conn, current_pos>>

\* except Exception as e: SUCCESS = False; email_msg = str(e) + trace; raise
except_resume ==
    /\ pc = "except"
    /\ SUCCESS' = FALSE
    /\ email_msg' = exc
    /\ pc' = IF i < Len(config.stages) THEN "take_stills" ELSE "finally"
    /\ UNCHANGED <<inputs, gui, fabric, axis_log, others, remote_dirs, output_file_path, validation, i, row, cam,
                   position, local_paths, files, unmoved_files, exc, loopDone,
                   log, emails, result, local_files, pins, conn, current_pos>>

except_Exception ==
    /\ pc = "except"
    /\ SUCCESS' = FALSE
    /\ email_msg' = exc
    /\ pc' = "finally"
    /\ UNCHANGED <<inputs, gui, fabric, axis_log, others, remote_dirs, output_file_path, validation, i, row, cam,
                   position, local_paths, files, unmoved_files, exc, loopDone,
                   log, emails, result, local_files, pins, conn, current_pos>>

\* the call in progress at each blocking step of the try block
CallInProgress ==
    CASE pc = "home" -> <<Call("home", 0, 0, 0, NoCam, FALSE)>>
      [] pc = "stage_move" ->
            <<Call("get_position", 0, i + 1, 0, NoCam, FALSE)>>
      [] pc = "stage_move_actuator" ->
            <<Call("move", config.stages[i + 1].stage_distance - current_pos,
                   i + 1, 0, NoCam, FALSE)>>
      [] pc = "row_move" ->
            <<Call("move", config.stages[i + 1].row_distance, i + 1, row + 1,
                   NoCam, FALSE)>>
      [] pc \in {"take_stills", "capture_files"} ->
            <<Call("capture", config.number_of_images, i + 1, row + 1,
                   Cameras[cam], FALSE)>>
      [] pc = "offload" ->
            <<Call("connect", 0, i + 1, row + 1, Cameras[cam], FALSE)>>

\* the steps of the try block that wait on a device or on the network
BlockingSteps ==
    {"home", "stage_move", "stage_move_actuator", "row_move", "take_stills",
     "capture_files", "offload"}

\* a KeyboardInterrupt (SIGINT) delivered while a call of the try block is
\* in progress: it is not an Exception, so `except Exception` does not run
\* and control goes to the finally block with SUCCESS untouched.  `with`
\* blocks being left are exited: a serial connection is closed, an opened
\* camera is stopped; a camera still inside DuckCam.__init__ is not.
KeyboardInterrupt ==
    /\ pc \in BlockingSteps
    /\ log' = log \o CallInProgress
    /\ exc' = "KeyboardInterrupt"
    /\ pc' = "finally"
    /\ axis_log' \in (IF pc \in ActuatorSteps
                      THEN raised_axis_log(AxisCommand[pc])
                      ELSE {axis_log})
    /\ close_serial_port
    /\ fabric' = FabricConnection_exit(fabric)
    /\ CASE pc = "take_stills" ->
                /\ pins' \in {pins, start_camera(Cameras[cam],
                                                 setup_gpio_pins(pins)).pins}
                /\ local_files' = local_files
          [] pc = "capture_files" ->
                /\ pins' = gp_cleanup(pins)
                /\ \E k \in 0..(config.number_of_images - 1) :
                        local_files' = local_files \cup shots(k)
          [] OTHER -> UNCHANGED <<pins, local_files>>
    /\ UNCHANGED <<inputs, gui, others, remote_dirs, output_file_path, validation, i, row, cam,
                   position, local_paths, files, unmoved_files, SUCCESS,
                   email_msg, loopDone, emails, result, current_pos>>

\* the steps from the initial homing to the end of the stage loop
TrySteps ==
    BlockingSteps \cup {"for_stage", "for_row", "update_first_last"}

\* a SIGTERM delivered during the try block: run_experiment installs no
\* handler, so the process ends at once; neither the except clause nor the
\* finally block runs.  The kernel closes the serial port; the GPIO
\* channels stay as they are.
SIGTERM ==
    /\ pc \in TrySteps
    /\ pc' = "killed"
    /\ conn' = {}
    /\ fabric' = {}
    /\ UNCHANGED <<inputs, gui, axis_log, others, remote_dirs, output_file_path, validation, i, row, cam, position, local_paths,
                   files, unmoved_files, SUCCESS, email_msg, exc, loopDone,
                   log, emails, result, local_files, pins, current_pos>>

\* the finally block going on to the email when its homing raised
finally_home_actuator_unguarded ==
    /\ pc = "finally"
    /\ \E ok \in BOOLEAN :
        /\ ok => defaults_set
        /\ axis_log' \in axis_log_after(ok, <<"home">>)
        /\ log' = Append(log, Call("home", 0, 0, 0, NoCam, ok))
        /\ position' = IF ok THEN 0 ELSE position
        /\ exc' = exc
        /\ IF test
           THEN Exit(exc)
           ELSE pc' = "send_email" /\ result' = result
    /\ close_serial_port
    /\ UNCHANGED <<inputs, gui, fabric, others, remote_dirs, output_file_path, validation, i, row, cam,
                   local_paths, files, unmoved_files, SUCCESS, email_msg,
                   loopDone, emails, local_files, pins, current_pos>>

\* finally: time.sleep(1); home_actuator(); then `if not test:`
finally_home_actuator_on_success ==
    /\ pc = "finally"
    /\ IF SUCCESS
       THEN \E ok \in BOOLEAN :
             /\ ok => defaults_set
             /\ axis_log' \in axis_log_after(ok, <<"home">>)
             /\ log' = Append(log, Call("home", 0, 0, 0, NoCam, ok))
             /\ IF ok
                THEN /\ position' = 0
                     /\ exc' = exc
                     /\ IF test
                        THEN Exit(exc)
                        ELSE pc' = "send_email" /\ result' = result
                ELSE /\ position' = position
                     /\ exc' = "HomeError"
                     /\ Exit("HomeError")
       ELSE /\ UNCHANGED <<log, position, exc, axis_log>>
            /\ IF test
               THEN Exit(exc)
               ELSE pc' = "send_email" /\ result' = result
    /\ close_serial_port
    /\ UNCHANGED <<inputs, gui, fabric, others, remote_dirs, output_file_path, validation, i, row, cam,
                   local_paths, files, unmoved_files, SUCCESS, email_msg,
                   loopDone, emails, local_files, pins, current_pos>>

finally_home_actuator ==
    /\ pc = "finally"
    /\ \E ok \in BOOLEAN :
        /\ ok => defaults_set
        /\ axis_log' \in axis_log_after(ok, <<"home">>)
        /\ log' = Append(log, Call("home", 0, 0, 0, NoCam, ok))
        /\ IF ok
           THEN /\ position' = 0
                /\ exc' = exc
                /\ IF test
                   THEN Exit(exc)
                   ELSE pc' = "send_email" /\ result' = result
           ELSE /\ position' = position
                /\ exc' = "HomeError"
                /\ Exit("HomeError")
    /\ close_serial_port
    /\ UNCHANGED <<inputs, gui, fabric, others, remote_dirs, output_file_path, validation, i, row, cam,
                   local_paths, files, unmoved_files, SUCCESS, email_msg,
                   loopDone, emails, local_files, pins, current_pos>>

\* if SUCCESS: email_msg = "The experiment ran successfully."
\* message = make_unmoved_msg(unmoved_files) + email_msg
\* send_email(SUCCESS, emails, experiment_name, message, first_last)
send_email ==
    /\ pc = "send_email"
    /\ email_msg' = IF SUCCESS THEN "The experiment ran successfully."
                    ELSE email_msg
    /\ \E ok \in BOOLEAN :
        IF ok
        THEN /\ emails' = Append(emails,
                    [kind |-> IF SUCCESS THEN "Success" ELSE "Error",
                     unmoved |-> unmoved_files,
                     body |-> email_msg',
                     attachments |-> <<files["tmp1"], files["tmp2"]>>])
             /\ pc' = "cleanup_first_last"
             /\ UNCHANGED <<exc, result>>
        ELSE /\ emails' = emails
             /\ exc' = "SMTPError"
             /\ Exit("SMTPError")
    /\ UNCHANGED <<inputs, gui, fabric, axis_log, others, remote_dirs, output_file_path, validation, i, row, cam,
                   position, local_paths, files, unmoved_files, SUCCESS,
                   loopDone, log, local_files, pins, conn, current_pos>>

\* cleanup_first_last(first_last), the last statement of the finally block
cleanup_first_last ==
    /\ pc = "cleanup_first_last"
    /\ files' = [p \in {"tmp1", "tmp2"} |-> Deleted]
    /\ Exit(exc)
    /\ UNCHANGED <<inputs, gui, fabric, axis_log, others, remote_dirs, output_file_path, validation, i, row, cam,
                   position, local_paths, unmoved_files, SUCCESS, email_msg,
                   exc, loopDone, log, emails, local_files, pins, conn,
                   current_pos>>

Next ==
    \/ read_and_validate_config
    \/ get_first_last_tmp_paths
    \/ ensure_remote_dirs_exist
    \/ open_serial_port
    \/ set_axis_defaults
    \/ home_actuator
    \/ for_stage
    \/ get_actuator_position
    \/ move_actuator_relative
    \/ for_row
    \/ move_actuator
    \/ DuckCam
    \/ take_stills
    \/ update_first_last
    \/ move_files_to_remote
    \/ except_Exception
    \/ KeyboardInterrupt
    \/ SIGTERM
    \/ finally_home_actuator
    \/ send_email
    \/ cleanup_first_last

Spec == Init /\ [][Next]_vars

\* the steps of run_experiment itself: every call it makes returns or raises
Step ==
    \/ read_and_validate_config
    \/ get_first_last_tmp_paths
    \/ ensure_remote_dirs_exist
    \/ open_serial_port
    \/ set_axis_defaults
    \/ home_actuator
    \/ for_stage
    \/ get_actuator_position
    \/ move_actuator_relative
    \/ for_row
    \/ move_actuator
    \/ DuckCam
    \/ take_stills
    \/ update_first_last
    \/ move_files_to_remote
    \/ except_Exception
    \/ finally_home_actuator
    \/ send_email
    \/ cleanup_first_last

\* a run in which no call is cut short by the end of the process: the
\* steps of run_experiment, and a KeyboardInterrupt raised out of a call
NextReturning ==
    \/ Step
    \/ KeyboardInterrupt

\* a run on a rig whose settings.MAX_DISTANCE is set
InitLive == Init /\ MAX_DISTANCE.kind = "digits"

\* run_experiment runs on one thread that nothing suspends, and every call
\* it makes returns or raises in the end: a step that is possible is taken
SpecLive == InitLive /\ [][NextReturning]_vars /\ WF_vars(Step)

\* ------------------------------------------------------ the camera switch
\* the identifiers start_camera is called with: the member names, and
\* strings that are none of them
CameraIds == MemberNames \cup {"E", "a", "0"}

\* the module just imported, by a caller of the camera switch or by
\* scripts/reset_cameras.py: no run in progress, the channels as at boot
InitCamera ==
    /\ MAX_DISTANCE = [kind |-> "empty", n |-> 0]
    /\ config = [number_of_images |-> 1, stages |-> <<>>]
    /\ test = TRUE
    /\ pc \in {"camera", "reset_cameras"}
    /\ validation = ""
    /\ i = 0
    /\ row = 0
    /\ cam = 1
    /\ position = 0
    /\ local_paths = <<>>
    /\ files = [p \in {"tmp1", "tmp2"} |-> Absent]
    /\ unmoved_files = <<>>
    /\ SUCCESS = TRUE
    /\ email_msg = ""
    /\ exc = NoExc
    /\ loopDone = FALSE
    /\ log = <<>>
    /\ emails = <<>>
    /\ result = <<>>
    /\ local_files = {}
    /\ pins = Released
    /\ conn = {}
    /\ current_pos = 0
    /\ remote_dirs = {}
    /\ output_file_path = <<>>
    /\ validation_error = ""
    /\ error_count = 0
    /\ axis_log = <<>>
    /\ fabric = {}
    /\ NoGui

\* what a call on the camera switch leaves alone
camera_frame ==
    UNCHANGED <<inputs, gui, fabric, axis_log, others, remote_dirs, output_file_path, pc, validation, i, row, cam, position, local_paths,
                files, unmoved_files, SUCCESS, email_msg, loopDone, emails,
                result, local_files, conn, current_pos>>

\* a call of setup_gpio_pins()
call_setup_gpio_pins ==
    /\ pc = "camera"
    /\ Len(log) < MaxCameraCalls
    /\ pins' = setup_gpio_pins(pins)
    /\ exc' = NoExc
    /\ log' = Append(log, Call("setup_gpio_pins", 0, 0, 0, NoCam, TRUE))
    /\ camera_frame

\* a call of start_camera(camera_id) on channels that are set up, as in
\* DuckCam.__init__, where it follows setup_gpio_pins()
call_start_camera ==
    /\ pc = "camera"
    /\ Len(log) < MaxCameraCalls
    /\ \A ch \in Channels : pins[ch].dir = "OUT"
    /\ \E camera_id \in CameraIds :
        LET sc == start_camera(camera_id, pins)
        IN  /\ pins' = sc.pins
            /\ exc' = IF sc.raised = "" THEN NoExc ELSE sc.raised
            /\ log' = Append(log, Call("start_camera", 0, 0, 0, camera_id,
                                       sc.raised = ""))
    /\ camera_frame

\* DuckCam.stop(): gp.cleanup()
call_stop ==
    /\ pc = "camera"
    /\ Len(log) < MaxCameraCalls
    /\ pins' = gp_cleanup(pins)
    /\ exc' = NoExc
    /\ log' = Append(log, Call("stop", 0, 0, 0, NoCam, TRUE))
    /\ camera_frame

\* the positional parameters of take_stills, none with a default: camera,
\* output_directory, base_filename, img_count
take_stills_parameters == 4

\* the arguments of the script's call take_stills(camera, tmpdirname, 1)
reset_cameras_arguments == 3

\* the script's call of take_stills: binding three arguments to four
\* required parameters raises TypeError before the body runs; were they
\* four, output_file_path would evaluate camera.name on a str
reset_cameras_call ==
    IF reset_cameras_arguments # take_stills_parameters
    THEN "TypeError" ELSE "AttributeError"

\* for camera in Cameras._member_names_: try: take_stills(camera,
\* tmpdirname, 1) except Exception: error_count += 1
reset_cameras_take_stills ==
    /\ pc = "reset_cameras"
    /\ cam <= Len(Cameras)
    /\ exc' = reset_cameras_call
    /\ log' = Append(log, Call("take_stills", reset_cameras_arguments, 0, 0,
                               Cameras[cam], FALSE))
    /\ error_count' = error_count + 1
    /\ cam' = cam + 1
    /\ UNCHANGED <<inputs, gui, fabric, axis_log, validation_error, remote_dirs, output_file_path, pc,
                   validation, i, row, position, local_paths, files,
                   unmoved_files, SUCCESS, email_msg, loopDone, emails,
                   result, local_files, pins, conn, current_pos>>

\* print(f"Took {len(listdir(tmpdirname))} photos with {error_count} errors")
reset_cameras_print ==
    /\ pc = "reset_cameras"
    /\ cam > Len(Cameras)
    /\ result' = <<Cardinality(local_files), error_count>>
    /\ pc' = "reset_cameras_done"
    /\ UNCHANGED <<inputs, gui, fabric, axis_log, others, remote_dirs, output_file_path,
                   validation, i, row, cam, position, local_paths, files,
                   unmoved_files, SUCCESS, email_msg, exc, loopDone, log,
                   emails, local_files, pins, conn, current_pos>>

NextCameraCall ==
    \/ call_setup_gpio_pins
    \/ call_start_camera
    \/ call_stop
    \/ reset_cameras_take_stills
    \/ reset_cameras_print

SpecCamera == InitCamera /\ [][NextCameraCall]_vars

\* ------------------------------------------------ validate_config, raw
\* a value of the mapping loaded from the YAML file: absent, a string, or
\* an int (v is the int, or the length of the string)
Missing == [t |-> "missing", v |-> 0]
Str(n) == [t |-> "str", v |-> n]
Int_(n) == [t |-> "int", v |-> n]

\* a stage as loaded: stage_distance and row_distance stand for their
\* "length" entries, absent when the key or its "length" is absent
RawStages ==
    [stage_distance : {Missing, Str(1)} \cup {Int_(n) : n \in -1..MaxStageDistance},
     rows : {Missing, Str(1)} \cup {Int_(n) : n \in -1..MaxRawRows},
     row_distance : {Missing, Str(1)} \cup {Int_(n) : n \in 0..MaxRawRowDistance}]

RawStageSeqs == UNION {[1..n -> RawStages] : n \in 0..MaxRawStages}

\* lambda x: len(x) > 5
min_email_length == 5

\* emails as loaded: absent, or a list of strings given by their lengths
RawEmails ==
    {[present |-> FALSE, list |-> <<>>], [present |-> TRUE, list |-> <<>>],
     [present |-> TRUE, list |-> <<Str(min_email_length)>>],
     [present |-> TRUE, list |-> <<Str(min_email_length + 1)>>],
     [present |-> TRUE, list |-> <<Str(min_email_length + 1), Str(min_email_length)>>]}

RawImages == {Missing, Str(1), Int_(0), Int_(1)}

\* the mappings validate_config is called with: any stages, with either
\* number_of_images or emails as a well-formed config has them
RawConfigs ==
    {c \in [has_stages : BOOLEAN, stages : RawStageSeqs,
            number_of_images : RawImages, emails : RawEmails] :
        /\ ~c.has_stages => c.stages = <<>>
        /\ \/ c.number_of_images = Int_(1)
           \/ c.emails = [present |-> TRUE, list |-> <<Str(min_email_length + 1)>>]}

\* the outcome of validate_config: the class of the exception raised ("ok"
\* when it returns) and what the exception reports
Outcome(raised, errors) == [raised |-> raised, errors |-> errors]

\* the for loop without the comparison with prev_stage_length
RECURSIVE raw_travel_check_no_overlap(_, _, _, _)
raw_travel_check_no_overlap(stages, k, prev_stage_length, md) ==
    IF k > Len(stages) THEN Outcome("ok", "")
    ELSE LET stage_distance == stages[k].stage_distance
             length == stages[k].row_distance
             rows == stages[k].rows
             stage_span == length.v * rows.v + stage_distance.v
         IN  IF stage_distance.t = "missing" THEN Outcome("KeyError", "stage_distance")
             ELSE IF stage_distance.t = "str" THEN Outcome("TypeError", "<")
             ELSE IF length.t = "missing" THEN Outcome("KeyError", "row_distance")
             ELSE IF rows.t = "missing" THEN Outcome("KeyError", "rows")
             ELSE IF length.t = "str" /\ rows.t = "str" THEN Outcome("TypeError", "*")
             ELSE IF length.t = "str" \/ rows.t = "str" THEN Outcome("TypeError", "+")
             ELSE IF md.some /\ stage_span > md.v THEN Outcome("SchemaError", "max")
             ELSE raw_travel_check_no_overlap(stages, k + 1, stage_span, md)

\* the for loop of validate_config on the mapping as loaded, from stage k
\* on: stage["stage_distance"]["length"] (KeyError when absent), its
\* comparison with prev_stage_length (TypeError for a string),
\* stage["row_distance"]["length"] * stage["rows"] (KeyError when absent; a
\* string times an int is a string, two strings a TypeError), the sum with
\* stage_distance (TypeError for a string), and the two SchemaErrors
RECURSIVE raw_travel_check(_, _, _, _)
raw_travel_check(stages, k, prev_stage_length, md) ==
    IF k > Len(stages) THEN Outcome("ok", "")
    ELSE LET stage_distance == stages[k].stage_distance
             length == stages[k].row_distance
             rows == stages[k].rows
             stage_span == length.v * rows.v + stage_distance.v
         IN  IF stage_distance.t = "missing" THEN Outcome("KeyError", "stage_distance")
             ELSE IF stage_distance.t = "str" THEN Outcome("TypeError", "<")
             ELSE IF stage_distance.v < prev_stage_length
                  THEN Outcome("SchemaError", "overlap")
             ELSE IF length.t = "missing" THEN Outcome("KeyError", "row_distance")
             ELSE IF rows.t = "missing" THEN Outcome("KeyError", "rows")
             ELSE IF length.t = "str" /\ rows.t = "str" THEN Outcome("TypeError", "*")
             ELSE IF length.t = "str" \/ rows.t = "str" THEN Outcome("TypeError", "+")
             ELSE IF md.some /\ stage_span > md.v THEN Outcome("SchemaError", "max")
             ELSE raw_travel_check(stages, k + 1, stage_span, md)

\* And(int, lambda n: n > 0)
positive_int(x) == x.t = "int" /\ x.v > 0

\* schema.validate(config) on the mapping as loaded: number_of_images, the
\* emails list schema (every element a string longer than 5; an empty list
\* has no element to fail) and the stage schemas
raw_schema_validate(cfg) ==
    IF /\ positive_int(cfg.number_of_images)
       /\ cfg.emails.present
       /\ \A k \in 1..Len(cfg.emails.list) :
            cfg.emails.list[k].t = "str" /\ cfg.emails.list[k].v > min_email_length
       /\ cfg.has_stages
       /\ \A k \in 1..Len(cfg.stages) :
            /\ positive_int(cfg.stages[k].row_distance)
            /\ positive_int(cfg.stages[k].rows)
            /\ cfg.stages[k].stage_distance.t = "int"
    THEN Outcome("ok", "") ELSE Outcome("SchemaError", "schema")

\* validate_config(config) on the mapping as loaded
validate_config_raw(cfg, setting) ==
    IF setting.kind = "missing" THEN Outcome("AttributeError", "MAX_DISTANCE")
    ELSE IF ~cfg.has_stages THEN Outcome("KeyError", "stages")
    ELSE LET t == raw_travel_check(cfg.stages, 1, 0, max_dist(setting))
         IN  IF t.raised # "ok" THEN t ELSE raw_schema_validate(cfg)

\* a caller about to validate a mapping it loaded
InitValidate ==
    /\ MAX_DISTANCE \in SettingValues
    /\ config \in RawConfigs
    /\ test = TRUE
    /\ pc = "validate_config"
    /\ validation = ""
    /\ i = 0
    /\ row = 0
    /\ cam = 1
    /\ position = 0
    /\ local_paths = <<>>
    /\ files = [p \in {"tmp1", "tmp2"} |-> Absent]
    /\ unmoved_files = <<>>
    /\ SUCCESS = TRUE
    /\ email_msg = ""
    /\ exc = NoExc
    /\ loopDone = FALSE
    /\ log = <<>>
    /\ emails = <<>>
    /\ result = <<>>
    /\ local_files = {}
    /\ pins = Released
    /\ conn = {}
    /\ current_pos = 0
    /\ remote_dirs = {}
    /\ output_file_path = <<>>
    /\ validation_error = ""
    /\ error_count = 0
    /\ axis_log = <<>>
    /\ fabric = {}
    /\ NoGui

\* validate_config(config)
call_validate_config ==
    /\ pc = "validate_config"
    /\ LET v == validate_config_raw(config, MAX_DISTANCE)
       IN  /\ validation' = v.raised
           /\ validation_error' = v.errors
           /\ exc' = IF v.raised = "ok" THEN NoExc ELSE v.raised
    /\ pc' = "validated"
    /\ UNCHANGED <<inputs, gui, fabric, axis_log, error_count, remote_dirs, output_file_path, i, row,
                   cam, position, local_paths, files, unmoved_files, SUCCESS,
                   email_msg, loopDone, log, emails, result, local_files,
                   pins, conn, current_pos>>

NextValidate == call_validate_config

SpecValidate == InitValidate /\ [][NextValidate]_vars

\* ------------------------------------------------- the GUI session file
\* the file a session that ended without its window being closed left in
\* SESSION_DIR
StaleSession == 0

\* a machine on which no GUI process runs yet; SESSION_DIR is empty or
\* holds a stale session file
InitGui ==
    /\ MAX_DISTANCE = [kind |-> "empty", n |-> 0]
    /\ config = [number_of_images |-> 1, stages |-> <<>>]
    /\ test = TRUE
    /\ pc = "gui"
    /\ validation = ""
    /\ i = 0
    /\ row = 0
    /\ cam = 1
    /\ position = 0
    /\ local_paths = <<>>
    /\ files = [p \in {"tmp1", "tmp2"} |-> Absent]
    /\ unmoved_files = <<>>
    /\ SUCCESS = TRUE
    /\ email_msg = ""
    /\ exc = NoExc
    /\ loopDone = FALSE
    /\ log = <<>>
    /\ emails = <<>>
    /\ result = <<>>
    /\ local_files = {}
    /\ pins = Released
    /\ conn = {}
    /\ current_pos = 0
    /\ remote_dirs = {}
    /\ output_file_path = <<>>
    /\ validation_error = ""
    /\ error_count = 0
    /\ axis_log = <<>>
    /\ fabric = {}
    /\ gui_pc = [p \in GuiProcs |-> "not_started"]
    /\ SESSION_FILENAME = [p \in GuiProcs |-> 0]
    /\ existing_session = [p \in GuiProcs |-> {}]
    /\ session_dir \in {{}, {StaleSession}}
    /\ dialogue = [p \in GuiProcs |-> FALSE]

\* what the session-file steps of a GUI process leave alone
gui_frame ==
    UNCHANGED <<inputs, others, fabric, axis_log, remote_dirs,
                output_file_path, pc, validation, i, row, cam, position,
                local_paths, files, unmoved_files, SUCCESS, email_msg, exc,
                loopDone, log, emails, result, local_files, pins, conn,
                current_pos>>

\* the values datetime.now().strftime("%m-%d-%Y-%H-%M-%S") can take when a
\* process starts: a second no earlier than that of any process started
\* before
now ==
    {t \in 1..MaxSeconds : \A q \in GuiProcs : SESSION_FILENAME[q] <= t}

\* the start of the module: SESSION_FILENAME, SESSION_DIR.mkdir,
\* NEW_SESSION_PATH, existing_session = list(SESSION_DIR.glob("*"))
glob_sessions(proc) ==
    /\ gui_pc[proc] = "not_started"
    /\ \E t \in now : SESSION_FILENAME' = [SESSION_FILENAME EXCEPT ![proc] = t]
    /\ existing_session' = [existing_session EXCEPT ![proc] = session_dir]
    /\ gui_pc' = [gui_pc EXCEPT ![proc] = "if_existing_session"]
    /\ UNCHANGED <<session_dir, dialogue>>
    /\ gui_frame

\* if len(existing_session): dialogue = SessionDialog(...)
\* else: NEW_SESSION_PATH.touch()
\* after root = customtkinter.CTk() has built the main window; the outcome
\* for each process, from the list it globbed earlier
if_existing_session_outcome ==
    [proc \in GuiProcs |->
        IF existing_session[proc] # {}
        THEN [dialogue |-> TRUE, touched |-> {}]
        ELSE [dialogue |-> FALSE, touched |-> {SESSION_FILENAME[proc]}]]

\* the `if len(existing_session):` statement of a process; the dialog is
\* modal, so the module waits in it
if_existing_session(proc) ==
    /\ gui_pc[proc] = "if_existing_session"
    /\ LET out == if_existing_session_outcome[proc]
       IN  /\ dialogue' = [dialogue EXCEPT ![proc] = out.dialogue]
           /\ session_dir' = session_dir \cup out.touched
           /\ gui_pc' = [gui_pc EXCEPT ![proc] =
                            IF out.dialogue THEN "dialogue" ELSE "mainloop"]
    /\ UNCHANGED <<SESSION_FILENAME, existing_session>>
    /\ gui_frame

\* SessionDialog.cancel, the Exit button: root.destroy()
SessionDialog_cancel(proc) ==
    /\ gui_pc[proc] = "dialogue"
    /\ gui_pc' = [gui_pc EXCEPT ![proc] = "exited"]
    /\ UNCHANGED <<SESSION_FILENAME, existing_session, session_dir, dialogue>>
    /\ gui_frame

\* SessionDialog.delete, the Delete button: os.remove of every listed
\* session, then new_session_path.touch() and the dialog closes; os.remove
\* raises at a listed file that is gone by now, after any of the others were
\* removed, and Tk reports the exception and leaves the dialog open
SessionDialog_delete(proc) ==
    /\ gui_pc[proc] = "dialogue"
    /\ IF existing_session[proc] \subseteq session_dir
       THEN /\ session_dir' = (session_dir \ existing_session[proc])
                                 \cup {SESSION_FILENAME[proc]}
            /\ gui_pc' = [gui_pc EXCEPT ![proc] = "mainloop"]
       ELSE /\ \E removed \in SUBSET (existing_session[proc] \cap session_dir) :
                    session_dir' = session_dir \ removed
            /\ gui_pc' = gui_pc
    /\ UNCHANGED <<SESSION_FILENAME, existing_session, dialogue>>
    /\ gui_frame

\* root.protocol("WM_DELETE_WINDOW", ...): closing the main window calls
\* delete_current_session(NEW_SESSION_PATH): os.remove of the process's own
\* session path, a FileNotFoundError being logged, then root.destroy()
delete_current_session(proc) ==
    /\ gui_pc[proc] = "mainloop"
    /\ session_dir' = session_dir \ {SESSION_FILENAME[proc]}
    /\ gui_pc' = [gui_pc EXCEPT ![proc] = "exited"]
    /\ UNCHANGED <<SESSION_FILENAME, existing_session, dialogue>>
    /\ gui_frame

NextGui ==
    \E proc \in GuiProcs :
        \/ glob_sessions(proc)
        \/ if_existing_session(proc)
        \/ SessionDialog_cancel(proc)
        \/ SessionDialog_delete(proc)
        \/ delete_current_session(proc)

SpecGui == InitGui /\ [][NextGui]_vars

\* ------------------------------------------------------------ properties
Terminated == pc \in {"returned", "raised"}

\* the run got as far as the try block: the config validated and, when not
\* a dry run, the remote directories were set up
Entered ==
    /\ validation = "ok"
    /\ test \/ \E k \in 1..Len(log) : log[k].op = "mkdirs" /\ log[k].ok

HomeCalls == {k \in 1..Len(log) : log[k].op = "home"}

\* calls whose exception aborts the stage loop
AbortOps == {"home", "get_position", "move", "capture", "connect"}

IsMotionOrCapture(e) == e.op \in {"home", "move", "capture"}

IsCapture(e) == e.op = "capture"

\* C1: a run that entered the try block has, when run_experiment exits,
\* invoked home_actuator exactly twice: every actuator query or move,
\* capture and transfer lies between the two homings, and the second homing
\* is the last call of the run, however the stage loop was left.
C1_HomedTwice ==
    (Terminated /\ Entered) =>
        /\ Cardinality(HomeCalls) = 2
        /\ log[Len(log)].op = "home"
        /\ \A k \in 1..Len(log) :
            log[k].op \in {"get_position", "move", "capture", "connect", "put"}
                => \E h1, h2 \in HomeCalls : h1 < k /\ k < h2

C1_Witness ==
    /\ Terminated /\ Entered /\ ~test
    /\ exc = "CaptureError"
    /\ Cardinality(HomeCalls) = 2
    /\ \E k \in 1..Len(log) : log[k].op = "put"

\* C2: a non-dry run that passed validation has sent exactly one email when
\* run_experiment exits, whichever step failed.
C2_OneEmailAlways ==
    (Terminated /\ ~test /\ validation = "ok") => Len(emails) = 1

\* C3: after the first call of the try block that raises (homing, position
\* query, move, capture or offload connection) the run issues no further
\* call except one final homing, and control never returns to the loop.
C3_FailFast ==
    \A k \in 1..Len(log) :
        (log[k].op \in AbortOps /\ ~log[k].ok) =>
            /\ Len(log) <= k + 1
            /\ Len(log) = k + 1 => log[k + 1].op = "home"
            /\ pc \in {"except", "finally", "send_email",
                       "cleanup_first_last", "raised"}

C3_Witness ==
    /\ pc = "raised"
    /\ exc = "CaptureError"
    /\ Len(log) >= 2
    /\ log[Len(log) - 1].op = "capture"
    /\ log[Len(log) - 1].cam = "B"
    /\ ~log[Len(log) - 1].ok
    /\ log[Len(log)].op = "home"

\* C4: when validation of the config fails run_experiment raises that
\* failure having made no actuator, camera or remote call, sent no email
\* and created neither placeholder file.
C4_InvalidConfigTouchesNothing ==
    validation \notin {"", "ok"} =>
        /\ pc = "raised"
        /\ exc = validation
        /\ log = <<>>
        /\ emails = <<>>
        /\ \A p \in {"tmp1", "tmp2"} : files[p] = Absent

C4_Witness ==
    /\ validation = "SchemaError"
    /\ pc = "raised"
    /\ Len(config.stages) = 2

\* C5: every email of a non-dry run is of the success kind exactly when the
\* stage loop ran to completion, and an error email carries the text of the
\* exception that ended the loop.
C5_SuccessEmailIffLoopDone ==
    \A k \in 1..Len(emails) :
        /\ emails[k].kind = "Success" <=> loopDone
        /\ emails[k].kind = "Error" =>
                emails[k].body \in {"HomeError", "PositionError", "MoveError",
                                    "CaptureError", "ConnectionError"}

\* C6: a failure to send the email is never what run_experiment raises.
C6_EmailFailureNotRaised ==
    pc = "raised" => exc # "SMTPError"

\* C7: in a non-dry run both placeholder files created at run start are
\* deleted when run_experiment exits, whatever the outcome.
C7_PlaceholdersDeleted ==
    (Terminated /\ ~test /\ validation = "ok") =>
        \A p \in {"tmp1", "tmp2"} : files[p] = Deleted

\* C8: a dry run never creates remote directories, opens an offload
\* connection, transfers a file or sends an email, never deletes a
\* placeholder, and returns the two placeholder paths when it completes.
C8_DryRunIsLocal ==
    test =>
        /\ \A k \in 1..Len(log) : log[k].op \notin {"mkdirs", "connect", "put"}
        /\ emails = <<>>
        /\ \A p \in {"tmp1", "tmp2"} : files[p] # Deleted
        /\ pc = "returned" =>
            /\ result = first_last
            /\ \A p \in {"tmp1", "tmp2"} : files[p].state \in {"empty", "image"}

C8_Witness ==
    /\ test
    /\ pc = "returned"
    /\ files["tmp1"].state = "image"
    /\ files["tmp2"].state = "image"
    /\ Len(config.stages) = 2

\* the calls a completed run of the stages k.. is expected to make, the
\* actuator being at pos: per stage the move to stage_distance, per row
\* after the first a move by row_distance, per row a capture by A, B, C, D
Ev(op, arg, s, r, c) ==
    [op |-> op, arg |-> arg, stage |-> s, row |-> r, cam |-> c, ok |-> TRUE]

ExpectedCaptures(cfg, s, r) ==
    [c \in 1..4 |->
        Ev("capture", cfg.number_of_images, s, r, <<"A", "B", "C", "D">>[c])]

RECURSIVE ExpectedRows(_, _, _)
ExpectedRows(cfg, s, r) ==
    IF r > cfg.stages[s].rows THEN <<>>
    ELSE (IF r > 1
          THEN <<Ev("move", cfg.stages[s].row_distance, s, r, NoCam)>>
          ELSE <<>>)
         \o ExpectedCaptures(cfg, s, r)
         \o ExpectedRows(cfg, s, r + 1)

RECURSIVE ExpectedStages(_, _, _)
ExpectedStages(cfg, s, pos) ==
    IF s > Len(cfg.stages) THEN <<>>
    ELSE LET st == cfg.stages[s]
         IN  <<Ev("move", st.stage_distance - pos, s, 0, NoCam)>>
             \o ExpectedRows(cfg, s, 1)
             \o ExpectedStages(cfg, s + 1,
                    st.stage_distance + (st.rows - 1) * st.row_distance)

ExpectedRun(cfg) ==
    <<Ev("home", 0, 0, 0, NoCam)>>
        \o ExpectedStages(cfg, 1, 0)
        \o <<Ev("home", 0, 0, 0, NoCam)>>

RECURSIVE SumRows(_, _)
SumRows(stages, k) ==
    IF k > Len(stages) THEN 0 ELSE stages[k].rows + SumRows(stages, k + 1)

\* C9: in a run that completes, the homings, moves and captures are exactly
\* home, then per stage, row and camera A, B, C, D in lexicographic order
\* one capture of number_of_images stills, then home: 4 x (sum of rows)
\* captures, the same sequence whether or not the run is a dry run.
C9_CaptureOrder ==
    pc = "returned" =>
        /\ SelectSeq(log, IsMotionOrCapture) = ExpectedRun(config)
        /\ Len(SelectSeq(log, IsCapture)) = 4 * SumRows(config.stages, 1)

C9_Witness ==
    /\ pc = "returned"
    /\ ~test
    /\ Len(config.stages) = 2
    /\ config.stages[1].rows = 2
    /\ Len(SelectSeq(log, IsCapture)) >= 12

\* the span of a stage, measured from home
Span(stage) == stage.stage_distance + stage.row_distance * stage.rows

\* every stage starts at or beyond the span of the stages before it, and
\* the total span is within the configured bound, if one is configured
TravelFits(stages, setting) ==
    /\ \A k \in 1..Len(stages) :
        stages[k].stage_distance >= (IF k = 1 THEN 0 ELSE Span(stages[k - 1]))
    /\ (setting.kind = "digits" /\ Len(stages) > 0)
            => Span(stages[Len(stages)]) <= setting.n

\* C10: for stages whose fields satisfy the schema, validate_config accepts
\* if and only if every stage's stage_distance is at least the cumulative
\* span of the prior stages and the total span is within the configured
\* maximum travel, when one is configured.
C10_AcceptsIffTravelFits ==
    (validation # "" /\ schema_validate(config) = "ok") =>
        (validation = "ok" <=> TravelFits(config.stages, MAX_DISTANCE))

\* some stage starts before the end of the rows of the stage before it
Overlap(stages) ==
    /\ Len(stages) >= 2
    /\ \E k \in 1..(Len(stages) - 1) :
        stages[k + 1].stage_distance < stages[k].row_distance * stages[k].rows

\* C11: for every config with at least two stages in which some stage k+1
\* has a stage_distance smaller than stage k's row_distance x rows,
\* validate_config fails with a SchemaError.
C11_OverlapRejected ==
    (validation # "" /\ Overlap(config.stages)) => validation = "SchemaError"

\* a step of update_first_last
UpdateStep == pc = "update_first_last" /\ pc' \in {"take_stills", "for_row", "offload"}

\* C12: update_first_last called while the first placeholder is empty copies
\* local_paths[0] into first and leaves last unchanged; called while first is
\* non-empty it copies local_paths[-1] into last and leaves first unchanged;
\* so first, once it holds an image, keeps that image for as long as it
\* exists, and every later call overwrites last.
C12_UpdateFirstLast ==
    [][/\ UpdateStep =>
            IF files["tmp1"] = Empty
            THEN /\ files'["tmp1"] = local_paths[1]
                 /\ files'["tmp2"] = files["tmp2"]
            ELSE /\ files'["tmp2"] = local_paths[Len(local_paths)]
                 /\ files'["tmp1"] = files["tmp1"]
       /\ (files["tmp1"].state = "image" /\ files'["tmp1"].state = "image")
            => files'["tmp1"] = files["tmp1"]
       /\ (~UpdateStep /\ files["tmp2"].state = "image"
                /\ files'["tmp2"].state = "image")
            => files'["tmp2"] = files["tmp2"]]_vars

\* last has been overwritten twice, each time with the final still of a batch
\* of two, first keeping the first still of the run
C12_Witness ==
    /\ config.number_of_images = 2
    /\ files["tmp1"] = Image(1, 1, "A", 0)
    /\ files["tmp2"] = Image(1, 1, "C", 1)

IsOkCapture(e) == e.op = "capture" /\ e.ok

\* the capture batches that succeeded so far, in order
OkCaptures == SelectSeq(log, IsOkCapture)

\* the first still of batch e, and its final still
FirstShot(e) == Image(e.stage, e.row, e.cam, 0)
FinalShot(e) == Image(e.stage, e.row, e.cam, e.arg - 1)

\* update_first_last has run for every batch captured so far, and the
\* result files exist
BatchesRecorded ==
    /\ Len(OkCaptures) >= 1
    /\ pc \notin {"update_first_last", "killed"}
    /\ files["tmp1"] # Deleted

\* the result files of a completed run over at least one stage
CompletedResult ==
    (BatchesRecorded /\ loopDone /\ Len(config.stages) >= 1) =>
        /\ files["tmp1"] = Image(1, 1, "A", 0)
        /\ files["tmp2"] = Image(Len(config.stages),
                                 config.stages[Len(config.stages)].rows, "D",
                                 config.number_of_images - 1)

\* C13: after every successful capture batch of a run, first holds the first
\* image captured in the run and last holds the final image of the latest
\* batch; after a completed run first is shot 0 of (stage 1, row 1, camera
\* A) and last is the final shot of (last stage, last row, camera D).
C13_FirstAndLatest ==
    /\ BatchesRecorded =>
        /\ files["tmp1"] = FirstShot(OkCaptures[1])
        /\ files["tmp2"] = FinalShot(OkCaptures[Len(OkCaptures)])
    /\ CompletedResult

\* C13, amended: after every successful capture batch first holds the first
\* image captured in the run; last is still the empty placeholder after the
\* first batch and holds the final image of the latest batch after the
\* second and every later batch; after a completed run first is shot 0 of
\* (stage 1, row 1, camera A) and last is the final shot of (last stage,
\* last row, camera D).
C13_FirstAndLatestFromSecondBatch ==
    /\ BatchesRecorded =>
        /\ files["tmp1"] = FirstShot(OkCaptures[1])
        /\ files["tmp2"] = IF Len(OkCaptures) = 1 THEN Empty
                           ELSE FinalShot(OkCaptures[Len(OkCaptures)])
    /\ CompletedResult

\* a completed two-stage run of two stills a batch, about to send its email
C13_Witness ==
    /\ pc = "send_email"
    /\ loopDone
    /\ Len(config.stages) = 2
    /\ config.number_of_images = 2
    /\ files["tmp1"] = Image(1, 1, "A", 0)
    /\ files["tmp2"] = Image(2, config.stages[2].rows, "D", 1)

\* the local path a put call was given
PathOfPut(e) == Image(e.stage, e.row, e.cam, e.arg)

\* C14: move_files_to_remote deletes the local copy of every file whose
\* transfer succeeded and deletes no file whose transfer raised: after the
\* call a local path still exists if and only if its transfer raised.
C14_MovedFilesDeleted ==
    \A k \in 1..Len(log) :
        log[k].op = "put" => (PathOfPut(log[k]) \in local_files <=> ~log[k].ok)

IsFailedPut(e) == e.op = "put" /\ ~e.ok

\* the paths of the put calls of a log that raised, in call order
FailedPaths(calls) ==
    LET f == SelectSeq(calls, IsFailedPut)
    IN  [k \in 1..Len(f) |-> PathOfPut(f[k])]

\* a step of move_files_to_remote on a connection that was established
OffloadStep ==
    /\ pc = "offload"
    /\ Len(log') > Len(log)
    /\ log'[Len(log) + 1].op = "connect"
    /\ log'[Len(log) + 1].ok

Bit(level) == IF level THEN 1 ELSE 0
GateCode(p) == <<Bit(p[7].level), Bit(p[11].level), Bit(p[12].level)>>

\* the gate code of each camera of the rig
SelectCode(id) ==
    CASE id = "A" -> <<0, 0, 1>>
      [] id = "B" -> <<1, 0, 1>>
      [] id = "C" -> <<0, 1, 0>>
      [] id = "D" -> <<1, 1, 0>>

\* a call of start_camera, whose identifier is then log'[Len(log')].cam
SelectionStep ==
    /\ Len(log') = Len(log) + 1
    /\ log'[Len(log')].op = "start_camera"

\* C17: start_camera(X) for X in {A, B, C, D} leaves the gate lines 7, 11,
\* 12 at exactly A=(0,0,1), B=(1,0,1), C=(0,1,0), D=(1,1,0) and drives them
\* as outputs; for any other identifier it raises ValueError and changes no
\* channel.
C17_GateCodes ==
    [][SelectionStep =>
        LET id == log'[Len(log')].cam
        IN  IF id \in {"A", "B", "C", "D"}
            THEN /\ exc' = NoExc
                 /\ log'[Len(log')].ok
                 /\ GateCode(pins') = SelectCode(id)
                 /\ \A ch \in {7, 11, 12} : pins'[ch].dir = "OUT"
            ELSE /\ exc' = "ValueError"
                 /\ ~log'[Len(log')].ok
                 /\ pins' = pins]_vars

\* camera D selected, then a call with an unknown identifier that raised and
\* left D's code on the gate lines
C17_Witness ==
    /\ pc = "camera"
    /\ Len(log) = 3
    /\ log[2].op = "start_camera" /\ log[2].cam = "D" /\ log[2].ok
    /\ log[3].op = "start_camera" /\ log[3].cam = "E" /\ ~log[3].ok
    /\ exc = "ValueError"
    /\ GateCode(pins) = <<1, 1, 0>>

\* take_stills is executing
InTakeStills == pc \in {"take_stills", "capture_files"}

\* the files of the batch of capture call e that are on the local disk
BatchFiles(e) ==
    {f \in local_files : f.stage = e.stage /\ f.row = e.row /\ f.cam = e.cam}

\* C18: whenever take_stills has finished, by returning or by raising from
\* camera selection, camera opening or a still capture, the gate lines are
\* released (every channel as gp.cleanup leaves it) when control is back in
\* run_experiment, and a batch whose capture failed is short of at least
\* one still.
C18_GateLinesReleased ==
    /\ (~InTakeStills /\ pc # "killed") => \A ch \in Channels : pins[ch].dir = "IN"
    /\ \A k \in 1..Len(log) :
        (log[k].op = "capture" /\ ~log[k].ok) =>
            Cardinality(BatchFiles(log[k])) < log[k].arg

\* C19: at every point of a run at most one actuator serial connection is
\* open, and it belongs to the actuator call in progress: none is left open
\* by a call that returned or raised, and none is open while a capture or a
\* remote transfer is in progress.
C19_OneSerialConnection ==
    /\ Cardinality(conn) <= 1
    /\ conn \subseteq ({pc} \cap ActuatorSteps)

\* the row move of a stage holds the only connection, after the position
\* query and the stage move before it opened and closed theirs
C19_Witness ==
    /\ pc = "row_move"
    /\ conn = {"row_move"}
    /\ \E k \in 1..(Len(log) - 1) :
        /\ log[k].op = "get_position" /\ log[k].ok
        /\ log[k + 1].op = "move" /\ log[k + 1].ok
    /\ \E k \in 1..Len(log) : log[k].op = "capture" /\ log[k].ok

\* C20: when a termination signal arrives between the initial homing and
\* the end of the stage loop, the process exits only after the cleanup of a
\* failed run: the actuator re-homed as the last call, the gate lines
\* released, no serial connection open.
C20_SignalRunsCleanup ==
    pc = "killed" =>
        /\ Len(log) >= 2
        /\ log[Len(log)].op = "home"
        /\ \A ch \in Channels : pins[ch].dir = "IN"
        /\ conn = {}

\* a call of ensure_remote_dirs_exist
IsMkdirs(e) == e.op = "mkdirs"

\* C21: in a non-dry run the remote directories (the experiment root and
\* one per camera) are all made before the first homing, capture or
\* transfer, by the first and only such call of the run; when that call
\* fails the run is over with no actuator motion, no capture and no
\* transfer.
C21_RemoteDirsFirst ==
    (~test /\ validation = "ok") =>
        /\ \A k \in 1..Len(log) : IsMkdirs(log[k]) <=> k = 1
        /\ Len(log) >= 2 => (log[1].ok /\ RemoteDirs \subseteq remote_dirs)
        /\ (Len(log) >= 1 /\ ~log[1].ok) =>
                /\ Len(log) = 1
                /\ pc = "raised"
                /\ position = 0
                /\ local_files = {}

\* a run that returned after making its directories on a host where all
\* five existed already
C21_Witness ==
    /\ pc = "returned"
    /\ ~test
    /\ IsMkdirs(log[1]) /\ log[1].ok
    /\ log[1].arg = Cardinality(RemoteDirs)
    /\ \E k \in 1..Len(log) : log[k].op = "put" /\ log[k].ok

\* the numeral of a stage, row or shot number below ten
Numeral(n) ==
    CASE n = 0 -> "0" [] n = 1 -> "1" [] n = 2 -> "2" [] n = 3 -> "3"
      [] n = 4 -> "4" [] n = 5 -> "5" [] n = 6 -> "6" [] n = 7 -> "7"
      [] n = 8 -> "8" [] n = 9 -> "9"

\* cam_<X>_<stage>_<row>_<timestamp>_<n>.jpg under camera<X>
ConventionalPath(X, s, r, n) ==
    <<"local_save_dir", "/", "camera", X, "/",
      "cam_", X, "_", Numeral(s), "_", Numeral(r), "_", "YYYYMMDD-HHMMSS",
      "_", Numeral(n), ".jpg">>

\* C22: every file captured for the stage at 0-based index i, the row at
\* 0-based index r, camera X and shot n is named
\* cam_<X>_<i+1>_<r+1>_<timestamp>_<n>.jpg, and the filename base of the
\* batch being captured differs from that of every other (stage, row,
\* camera) batch captured before it in the run.
C22_FileNames ==
    pc = "capture_files" =>
        /\ \A n \in 0..(config.number_of_images - 1) :
            format(output_file_path, n)
                = ConventionalPath(Cameras[cam], i + 1, row + 1, n)
        /\ \A k \in 1..Len(log) :
            (/\ log[k].op = "capture"
             /\ <<log[k].cam, log[k].stage, log[k].row>>
                    # <<Cameras[cam], i + 1, row + 1>>)
                => make_filename_base(log[k].cam, log[k].stage, log[k].row)
                    # make_filename_base(Cameras[cam], i + 1, row + 1)

\* camera D capturing two stills at the second row of the second stage
C22_Witness ==
    /\ pc = "capture_files"
    /\ i = 1 /\ row = 1 /\ cam = 4
    /\ config.number_of_images = 2
    /\ Len(OkCaptures) = 15

\* the position at which the last row of stage s is captured, 0 before the
\* first stage
EndOfStage(s) ==
    IF s = 0 THEN 0
    ELSE config.stages[s].stage_distance
            + (config.stages[s].rows - 1) * config.stages[s].row_distance

\* the row moves issued for stage s
RowMoves(s) ==
    {k \in 1..Len(log) : log[k].op = "move" /\ log[k].stage = s /\ log[k].row > 0}

Validated == pc = "validated"

IsInt(x) == x.t = "int"

\* stage k of the mapping starts before the end of stage k - 1
RawOverlapAt(k) ==
    /\ IsInt(config.stages[k].stage_distance)
    /\ IsInt(config.stages[k - 1].stage_distance)
    /\ IsInt(config.stages[k - 1].rows)
    /\ IsInt(config.stages[k - 1].row_distance)
    /\ config.stages[k].stage_distance.v
        < config.stages[k - 1].stage_distance.v
            + config.stages[k - 1].row_distance.v * config.stages[k - 1].rows.v

RawOverlap == \E k \in 2..Len(config.stages) : RawOverlapAt(k)

\* a value that is present and is not a positive int
NotPositiveInt(x) == x.t = "str" \/ (x.t = "int" /\ x.v <= 0)

\* rows, row_distance or number_of_images wrong-typed or non-positive
FieldViolation ==
    \/ NotPositiveInt(config.number_of_images)
    \/ \E k \in 1..Len(config.stages) :
        NotPositiveInt(config.stages[k].rows)
            \/ NotPositiveInt(config.stages[k].row_distance)

\* C23: when a config violates both the travel-overlap constraint and a
\* field-level schema constraint (a wrong-typed or non-positive rows,
\* row_distance or number_of_images), the failure raised by validate_config
\* reports the travel-overlap violation.
C23_OverlapReportedFirst ==
    (Validated /\ RawOverlap /\ FieldViolation) =>
        (validation = "SchemaError" /\ validation_error = "overlap")

\* a presence or type requirement of the schema is violated: stages is
\* missing, a stage misses stage_distance, rows or row_distance, or one of
\* them is not an int
PresenceOrTypeViolation ==
    \/ ~config.has_stages
    \/ \E k \in 1..Len(config.stages) :
        \/ ~IsInt(config.stages[k].stage_distance)
        \/ ~IsInt(config.stages[k].rows)
        \/ ~IsInt(config.stages[k].row_distance)

\* C24: for every raw mapping that violates a field presence or type
\* requirement of the schema, validate_config fails with SchemaError and
\* with no other kind of exception.
C24_OnlySchemaError ==
    (Validated /\ PresenceOrTypeViolation) => validation = "SchemaError"

\* C29: validate_config rejects every config in which some stage's
\* stage_distance is negative, whatever the other fields hold.
C29_NegativeStageDistanceRejected ==
    (Validated /\ \E k \in 1..Len(config.stages) :
                    /\ IsInt(config.stages[k].stage_distance)
                    /\ config.stages[k].stage_distance.v < 0)
        => validation # "ok"

\* a negative stage_distance in the second stage that the loop lets through
\* because the first stage's negative rows make its span as small, and that
\* the schema then rejects
C29_Witness ==
    /\ Validated
    /\ Len(config.stages) = 2
    /\ config.stages[1].rows = Int_(-1)
    /\ config.stages[1].row_distance = Int_(1)
    /\ config.stages[1].stage_distance = Int_(0)
    /\ config.stages[2].stage_distance = Int_(-1)
    /\ validation = "SchemaError"
    /\ validation_error = "schema"

\* C30: every config accepted by validate_config has at least one
\* notification recipient, and every recipient is a string longer than 5
\* characters.
C30_AtLeastOneRecipient ==
    (Validated /\ validation = "ok") =>
        /\ config.emails.present
        /\ Len(config.emails.list) >= 1
        /\ \A k \in 1..Len(config.emails.list) :
            config.emails.list[k].t = "str" /\ config.emails.list[k].v > 5

\* C25: the reset_cameras script takes one test photo with each of cameras
\* A, B, C and D in that order, goes on to the next camera when one
\* camera's capture raises, so that every error it counts is a capture that
\* raised, and reports a photo count and an error count whose sum is 4.
C25_ResetTakesFourPhotos ==
    pc = "reset_cameras_done" =>
        /\ Len(log) = 4
        /\ \A k \in 1..4 :
            log[k].op = "take_stills" /\ log[k].cam = <<"A", "B", "C", "D">>[k]
        /\ result[1] + result[2] = 4
        /\ result[2] > 0 => exc = "CaptureError"

\* ---------------------------------------------------------------- C31
\* the commands that set the axis in motion
MotionCommands == {"home", "move_relative"}

\* the three settings commands of set_axis_defaults, in the order sent
GentleDefaults == <<"maxspeed", "motion.accelonly", "motion.decelonly">>

\* a step in which a homing or a move returns
MotionReturns ==
    /\ Len(log') = Len(log) + 1
    /\ log'[Len(log')].op \in {"home", "move"}
    /\ log'[Len(log')].ok

\* on the latest connection, every motion command comes after the three
\* defaults
DefaultsPrecedeMotion ==
    \A k \in 1..Len(axis_log) :
        axis_log[k] \in MotionCommands =>
            /\ k > Len(GentleDefaults)
            /\ SubSeq(axis_log, 1, Len(GentleDefaults)) = GentleDefaults

\* C31: on every serial connection, a motion command (home, relative move)
\* is preceded by the three gentle defaults (maximum speed, acceleration,
\* deceleration) sent over that same connection; and every homing and every
\* move that returns has sent the defaults and then its motion command over
\* the connection it opened.
C31_DefaultsBeforeMotion ==
    /\ []DefaultsPrecedeMotion
    /\ [][MotionReturns =>
            /\ pc \in conn
            /\ Len(axis_log') > Len(GentleDefaults)
            /\ SubSeq(axis_log', 1, Len(GentleDefaults)) = GentleDefaults
            /\ axis_log'[Len(GentleDefaults) + 1] \in MotionCommands]_vars

\* a relative move to a stage returned: the connection carried the three
\* defaults, then the move
C31_Witness ==
    /\ Len(log) > 0
    /\ log[Len(log)].op = "move"
    /\ log[Len(log)].ok
    /\ conn = {}
    /\ axis_log = GentleDefaults \o <<"move_relative", "get_position">>

\* ---------------------------------------------------------------- C32
IsPut(e) == e.op = "put"
IsConnect(e) == e.op = "connect"

\* the captured files whose transfer was attempted
Offered == {PathOfPut(log[k]) : k \in {j \in 1..Len(log) : IsPut(log[j])}}

\* the captured files still awaiting their first transfer attempt
Awaiting == local_files \ Offered

\* the steps of the try block at which the next capture or actuator move
\* is about to begin or is in progress
BetweenBatches ==
    {"for_stage", "stage_move", "stage_move_actuator", "for_row", "row_move",
     "take_stills", "capture_files"}

\* C32: in a non-dry run every captured file has been offered to remote
\* transfer when the next capture or actuator move begins, no connection to
\* the remote host is open then, the offload of a batch makes one connection
\* and one put per file of the batch, and at most number_of_images captured
\* files are awaiting their first transfer attempt at any point.
C32_OffloadPerBatch ==
    /\ [](~test =>
            /\ Cardinality(Awaiting) <= config.number_of_images
            /\ pc \in BetweenBatches => (Awaiting = {} /\ fabric = {}))
    /\ [][(~test /\ OffloadStep) =>
            LET calls == SubSeq(log', Len(log) + 1, Len(log'))
            IN  /\ Len(SelectSeq(calls, IsConnect)) = 1
                /\ Len(SelectSeq(calls, IsPut)) = Len(local_paths)
                /\ fabric' = {}]_vars

\* the second camera of a row is about to capture after the two files of
\* the first were offered over one connection
C32_Witness ==
    /\ ~test
    /\ pc = "take_stills"
    /\ cam = 2
    /\ config.number_of_images = 2
    /\ Len(SelectSeq(log, IsConnect)) = 1
    /\ Cardinality(Offered) = 2
    /\ Awaiting = {}

\* ---------------------------------------------------------------- C33
\* the latest call of the run is the homing of the finally block, and it
\* returned
FinalHomingCompleted ==
    /\ Cardinality(HomeCalls) = 2
    /\ log[Len(log)].op = "home"
    /\ log[Len(log)].ok

\* both placeholder files are on disk, empty or holding an image
PlaceholdersExist(contents) ==
    \A k \in 1..Len(contents) : contents[k].state \in {"empty", "image"}

\* C33: in a non-dry run the email is sent only after the final homing has
\* returned, the two placeholder files are deleted only after the email was
\* sent, and both attached files exist when the email is composed.
C33_HomeThenEmailThenDelete ==
    /\ [](emails # <<>> => (~test /\ FinalHomingCompleted))
    /\ [](files["tmp1"] = Deleted \/ files["tmp2"] = Deleted => Len(emails) = 1)
    /\ [][emails' # emails =>
            /\ pc = "send_email"
            /\ FinalHomingCompleted
            /\ PlaceholdersExist(<<files["tmp1"], files["tmp2"]>>)
            /\ emails' = Append(emails, emails'[Len(emails')])
            /\ emails'[Len(emails')].attachments = <<files["tmp1"], files["tmp2"]>>
            /\ files' = files]_vars

\* a non-dry run that returned: homed, sent its email with two images
\* attached, then deleted the placeholders
C33_Witness ==
    /\ pc = "returned"
    /\ ~test
    /\ FinalHomingCompleted
    /\ Len(emails) = 1
    /\ emails[1].attachments[1].state = "image"
    /\ emails[1].attachments[2].state = "image"
    /\ files["tmp1"] = Deleted /\ files["tmp2"] = Deleted

\* ---------------------------------------------------------------- C34
\* the steps from the except clause to the end of the finally block
CleanupSteps == {"except", "finally", "send_email", "cleanup_first_last"}

\* the stage loop was left before it exhausted the stages
LoopEnded == pc \in CleanupSteps /\ ~loopDone

\* the finally block ran to its end
CleanupCompleted ==
    /\ FinalHomingCompleted
    /\ ~test => (Len(emails) = 1 /\ files["tmp1"] = Deleted /\ files["tmp2"] = Deleted)

\* C34: a stage loop left early was left by an exception; that exception
\* stays in flight through the final homing, the email and the placeholder
\* deletion, and when these have completed it is the one raised to the
\* caller, with no result returned; run_experiment never returns after a
\* loop left early, and when it returns the loop completed and the result
\* is the two result paths.
C34_Reraises ==
    /\ [](LoopEnded => exc # NoExc)
    /\ [](pc = "returned" => (loopDone /\ exc = NoExc /\ result = first_last))
    /\ [][LoopEnded =>
            /\ pc' # "returned"
            /\ LoopEnded' => exc' = exc
            /\ (pc' = "raised" /\ CleanupCompleted') =>
                    (exc' = exc /\ result' = <<>>)]_vars

\* a non-dry run whose capture raised: homed, emailed, placeholders deleted,
\* and the capture's exception raised to the caller
C34_Witness ==
    /\ pc = "raised"
    /\ ~test
    /\ ~loopDone
    /\ exc = "CaptureError"
    /\ CleanupCompleted
    /\ result = <<>>

\* ---------------------------------------------------------------- C35
IsImage(f) == f.state = "image"

\* C35: every email of a non-dry run sent after at least one capture batch
\* succeeded has two non-empty images attached, first and last.
C35_AttachmentsAreImages ==
    \A k \in 1..Len(emails) :
        Len(OkCaptures) >= 1 =>
            /\ IsImage(emails[k].attachments[1])
            /\ IsImage(emails[k].attachments[2])

\* C35, amended: the email of a non-dry run has two non-empty images
\* attached when at least two capture batches succeeded; after exactly one
\* successful batch first is that batch's first image and last is the
\* zero-length placeholder; after none both are zero-length placeholders.
C35_AttachmentsFromSecondBatch ==
    \A k \in 1..Len(emails) :
        LET first == emails[k].attachments[1]
            last == emails[k].attachments[2]
        IN  /\ Len(OkCaptures) >= 2 => (IsImage(first) /\ IsImage(last))
            /\ Len(OkCaptures) = 1 =>
                    (first = FirstShot(OkCaptures[1]) /\ last = Empty)
            /\ Len(OkCaptures) = 0 => (first = Empty /\ last = Empty)

\* an error email sent after camera A's batch succeeded and camera B's
\* capture raised: first is an image, last the empty placeholder
C35_Witness ==
    /\ Len(emails) = 1
    /\ emails[1].kind = "Error"
    /\ Len(OkCaptures) = 1
    /\ IsImage(emails[1].attachments[1])
    /\ emails[1].attachments[2] = Empty

\* ---------------------------------------------------------------- C36
\* the run is in its try block or in its cleanup
Running == pc \in TrySteps \cup CleanupSteps

\* run_experiment has exited after the homing of its finally block
ExitedAfterFinalHoming ==
    /\ Terminated
    /\ Cardinality(HomeCalls) = 2
    /\ log[Len(log)].op = "home"

\* C36: when every call returns or raises, a run that has entered its try
\* block reaches the homing of its finally block and then exits, by return
\* or by raise; and no run makes more than 4 x (sum of rows over all stages)
\* capture invocations.
C36_Terminates ==
    /\ Running ~> ExitedAfterFinalHoming
    /\ [](Len(SelectSeq(log, IsCapture)) <= 4 * SumRows(config.stages, 1))

\* a run over a stage of one row and a stage of two rows has returned
\* after 12 capture invocations
C36_Witness ==
    /\ ExitedAfterFinalHoming
    /\ pc = "returned"
    /\ Len(config.stages) = 2
    /\ Len(SelectSeq(log, IsCapture)) = 4 * SumRows(config.stages, 1)
    /\ Len(SelectSeq(log, IsCapture)) = 12

\* ---------------------------------------------------------------- C37
\* the main window of the process is up
InMainloop(proc) == gui_pc[proc] = "mainloop"

\* C37: two GUI processes never both have their main window up without at
\* least one of them having shown the active-session dialog, however their
\* starts interleave; and a GUI closed through its window leaves no session
\* file of its own name behind.
C37_NeverBothUnwarned ==
    /\ [](\A p1, p2 \in GuiProcs :
            (p1 # p2 /\ InMainloop(p1) /\ InMainloop(p2)) =>
                (dialogue[p1] \/ dialogue[p2]))
    /\ [][\A p1 \in GuiProcs :
            (InMainloop(p1) /\ gui_pc'[p1] = "exited") =>
                SESSION_FILENAME[p1] \notin session_dir']_vars

====
